---------------------------- MODULE Spec2Model ----------------------------
(***************************************************************************)
(* RoseTerm: the terminal core (src/terminal/grid.rs) driven by the vte    *)
(* parser's Perform callbacks, and the coordinator (src/gui/window.rs)     *)
(* that owns it.                                                           *)
(*                                                                         *)
(* Rust's Vec indices are 0-based, TLA+ sequences 1-based: element i of a  *)
(* Vec is s[i + 1] here.  All cursor / margin / offset fields keep the     *)
(* 0-based values of the source.                                           *)
(*                                                                         *)
(* A Rust panic (index out of bounds, Vec::remove / Vec::insert past the   *)
(* end, usize subtraction below zero) is recorded in the field `panicked`  *)
(* of the terminal record: the process aborts, so no action is enabled     *)
(* once it is set.                                                         *)
(***************************************************************************)
EXTENDS Integers, Sequences, FiniteSets, TLC

VARIABLES
    terminal,   \* RoseWindow.terminal : Terminal
    lastOp,     \* history variable: the callback / handler that ran last
                \* ("CRLF": a line feed that directly followed a carriage return)
    printed,    \* history variable: the glyphs printed so far (kept only by SpecPrint)
    lastParams, \* history variable: the parameters of the CSI sequence or mouse event just handled
                \* (kept only by the steps of SpecCsi; <<>> after any other step)
    pty,        \* the PTY reader thread and the event loop's queue of user events:
                \*   reader : "reading", or "exited" once the thread left its loop
                \*   read   : history, the bytes reader.read has returned so far
                \*   queue  : the PtyOutput batches sent and not yet handled
                \*   fed    : history, the bytes given to parser.advance so far
                \*   exit   : control_flow is ControlFlow::Exit
    win         \* the rest of RoseWindow and what its last handler did to the outside:
                \*   is_selecting, last_key : the fields of RoseWindow
                \*   written   : the bytes the last handler wrote to pty.writer
                \*   redraw    : the last handler called window.request_redraw()
                \*   title     : the title last given to window.set_title
                \*   pty_size  : <<rows, cols>> last given to the PTY
                \*   clipboard : <<>> (get_text fails) or <<text>>
                \*   frame     : <<>>, or what the last draw put into the pixel frame:
                \*               the cell drawn at each screen row and column
                \*   overflow_checks : the build panics on integer overflow (debug
                \*               profile) or wraps (release profile)

vars == <<terminal, lastOp, printed, lastParams, pty, win>>

(***************************************************************************)
(* Bounds of the model.                                                    *)
(***************************************************************************)
MaxCols == 2
MaxRows == 3
MaxParam == 2
MaxHist == 1
MaxCells == 4

(* History bound of new_line (grid.rs:153). *)
HISTORY_LIMIT == 10000

Min(a, b) == IF a < b THEN a ELSE b
Max(a, b) == IF a > b THEN a ELSE b

(* usize::saturating_sub *)
saturating_sub(a, b) == IF a > b THEN a - b ELSE 0

(***************************************************************************)
(* Vec<T> primitives, 0-based index i.  The callers test the panic         *)
(* conditions (remove: i >= len, insert: i > len) before using them.       *)
(***************************************************************************)
Vec_remove(s, i) == [k \in 1..(Len(s) - 1) |-> IF k <= i THEN s[k] ELSE s[k + 1]]

Vec_insert(s, i, e) ==
    [k \in 1..(Len(s) + 1) |-> IF k <= i THEN s[k] ELSE IF k = i + 1 THEN e ELSE s[k - 1]]

(* vec![e; n] *)
Vec_repeat(e, n) == [k \in 1..n |-> e]

(* Vec::resize(n, e): truncate from the end or pad with e *)
Vec_resize(s, n, e) == [k \in 1..n |-> IF k <= Len(s) THEN s[k] ELSE e]

(***************************************************************************)
(* Color, Cell                                                             *)
(***************************************************************************)
StandardColors == <<"Black", "Red", "Green", "Yellow", "Blue", "Magenta", "Cyan", "White">>

BrightColors ==
    <<"BrightBlack", "BrightRed", "BrightGreen", "BrightYellow",
      "BrightBlue", "BrightMagenta", "BrightCyan", "BrightWhite">>

Cell_default == [char |-> " ", fg |-> "DefaultFg", bg |-> "DefaultBg", inverse |-> FALSE]

(***************************************************************************)
(* Terminal                                                                *)
(***************************************************************************)
Terminal_new(c, r) ==
    [ grid            |-> Vec_repeat(Vec_repeat(Cell_default, c), r),
      history         |-> <<>>,
      cols            |-> c,
      rows            |-> r,
      cursor_x        |-> 0,
      cursor_y        |-> 0,
      scroll_offset   |-> 0,
      scroll_top      |-> 0,
      scroll_bottom   |-> saturating_sub(r, 1),
      current_fg      |-> "DefaultFg",
      current_bg      |-> "DefaultBg",
      current_inverse |-> FALSE,
      saved_cursor_x  |-> 0,
      saved_cursor_y  |-> 0,
      mouse_reporting |-> FALSE,
      title           |-> "RoseTerm",
      selection_start |-> <<>>,
      selection_end   |-> <<>>,
      panicked        |-> FALSE ]

(* The process aborts with the state as it was when the panic was raised. *)
Panic(t) == [t EXCEPT !.panicked = TRUE]

blank_cell(t) ==
    [char |-> " ", fg |-> t.current_fg, bg |-> t.current_bg, inverse |-> t.current_inverse]

(* mutant of new_line: scrolls when the cursor is on the last screen row, whatever *)
(* scroll_bottom is *)
new_line_at_last_row(t) ==
    IF t.cursor_y = t.rows - 1
    THEN LET g1 == Vec_remove(t.grid, t.scroll_top)
         IN  [t EXCEPT !.grid = Vec_insert(g1, t.scroll_bottom,
                                           Vec_repeat(blank_cell(t), t.cols)),
                       !.history = IF t.scroll_top = 0
                                   THEN Append(IF Len(t.history) > HISTORY_LIMIT
                                               THEN Tail(t.history) ELSE t.history,
                                               t.grid[t.scroll_top + 1])
                                   ELSE t.history]
    ELSE [t EXCEPT !.cursor_y = t.cursor_y + 1]

(* mutant of new_line: removes grid row 0 instead of the row at scroll_top *)
new_line_remove_row0(t) ==
    IF t.cursor_y = t.scroll_bottom
    THEN LET g1 == Vec_remove(t.grid, 0)
         IN  [t EXCEPT !.grid = Vec_insert(g1, t.scroll_bottom,
                                           Vec_repeat(blank_cell(t), t.cols)),
                       !.history = IF t.scroll_top = 0
                                   THEN Append(t.history, t.grid[1])
                                   ELSE t.history]
    ELSE [t EXCEPT !.cursor_y = Min(t.cursor_y + 1, t.rows - 1)]

(* mutant of new_line: the retired row is pushed to history whatever scroll_top is *)
new_line_push_always(t) ==
    IF t.cursor_y = t.scroll_bottom
    THEN LET g1 == Vec_remove(t.grid, t.scroll_top)
         IN  [t EXCEPT !.grid = Vec_insert(g1, t.scroll_bottom,
                                           Vec_repeat(blank_cell(t), t.cols)),
                       !.history = Append(t.history, t.grid[t.scroll_top + 1])]
    ELSE [t EXCEPT !.cursor_y = Min(t.cursor_y + 1, t.rows - 1)]

new_line(t) ==
    IF t.cursor_y = t.scroll_bottom
    THEN IF t.scroll_top >= Len(t.grid)
         THEN Panic(t)
         ELSE LET removed == t.grid[t.scroll_top + 1]
                  g1 == Vec_remove(t.grid, t.scroll_top)
                  h1 == IF t.scroll_top = 0
                        THEN Append(IF Len(t.history) > HISTORY_LIMIT
                                    THEN Tail(t.history)
                                    ELSE t.history,
                                    removed)
                        ELSE t.history
              IN  IF t.scroll_bottom > Len(g1)
                  THEN Panic([t EXCEPT !.grid = g1, !.history = h1])
                  ELSE [t EXCEPT !.grid = Vec_insert(g1, t.scroll_bottom,
                                                     Vec_repeat(blank_cell(t), t.cols)),
                                 !.history = h1]
    ELSE IF t.cursor_y + 1 >= t.rows
         THEN IF t.rows = 0 THEN Panic(t) ELSE [t EXCEPT !.cursor_y = t.rows - 1]
         ELSE [t EXCEPT !.cursor_y = t.cursor_y + 1]

(* scroll_up without the clamp to the history length *)
scroll_up_unclamped(t, lines) ==
    [t EXCEPT !.scroll_offset = t.scroll_offset + lines]

scroll_up(t, lines) ==
    [t EXCEPT !.scroll_offset = Min(t.scroll_offset + lines, Len(t.history))]

scroll_down(t, lines) ==
    [t EXCEPT !.scroll_offset = saturating_sub(t.scroll_offset, lines)]

(* resize that leaves the scroll region and the view offset as they were *)
resize_keep_region(t, new_cols, new_rows) ==
    LET g1 == Vec_resize(t.grid, new_rows, Vec_repeat(Cell_default, new_cols))
        g2 == [y \in 1..Len(g1) |-> Vec_resize(g1[y], new_cols, Cell_default)]
    IN  [t EXCEPT !.grid = g2,
                  !.rows = new_rows,
                  !.cols = new_cols,
                  !.cursor_x = Min(t.cursor_x, new_cols - 1),
                  !.cursor_y = Min(t.cursor_y, new_rows - 1)]

resize(t, new_cols, new_rows) ==
    LET g1 == Vec_resize(t.grid, new_rows, Vec_repeat(Cell_default, new_cols))
        g2 == [y \in 1..Len(g1) |-> Vec_resize(g1[y], new_cols, Cell_default)]
        t1 == [t EXCEPT !.grid = g2,
                        !.rows = new_rows,
                        !.cols = new_cols,
                        !.scroll_top = 0,
                        !.scroll_bottom = saturating_sub(new_rows, 1)]
    IN  IF new_cols = 0 \/ new_rows = 0
        THEN Panic(t1)
        ELSE [t1 EXCEPT !.cursor_x = Min(t.cursor_x, new_cols - 1),
                        !.cursor_y = Min(t.cursor_y, new_rows - 1),
                        !.scroll_offset = 0]

(***************************************************************************)
(* impl Perform for Terminal                                               *)
(***************************************************************************)
(* mutant of print: wraps eagerly, right after writing in the last column *)
print_eager_wrap(t, c) ==
    LET t1 == [t EXCEPT !.grid[t.cursor_y + 1][t.cursor_x + 1] =
                            [char |-> c, fg |-> t.current_fg, bg |-> t.current_bg,
                             inverse |-> t.current_inverse],
                        !.cursor_x = t.cursor_x + 1]
    IN  IF t1.cursor_x >= t1.cols
        THEN [new_line(t1) EXCEPT !.cursor_x = 0]
        ELSE t1

print(t, c) ==
    LET t1 == IF t.cursor_x >= t.cols
              THEN LET n == new_line(t)
                   IN  IF n.panicked THEN n ELSE [n EXCEPT !.cursor_x = 0]
              ELSE t
    IN  IF t1.panicked
        THEN t1
        ELSE IF t1.cursor_y >= Len(t1.grid) \/ t1.cursor_x >= Len(t1.grid[t1.cursor_y + 1])
             THEN Panic(t1)
             ELSE [t1 EXCEPT !.grid[t1.cursor_y + 1][t1.cursor_x + 1] =
                                 [char |-> c, fg |-> t1.current_fg, bg |-> t1.current_bg,
                                  inverse |-> t1.current_inverse],
                             !.cursor_x = t1.cursor_x + 1]

(* C0 bytes *)
LF == 10
CR == 13
BS == 8
BEL == 7

execute(t, byte) ==
    CASE byte = LF -> new_line(t)
      [] byte = CR -> [t EXCEPT !.cursor_x = 0]
      [] byte = BS -> IF t.cursor_x > 0 THEN [t EXCEPT !.cursor_x = t.cursor_x - 1] ELSE t
      [] OTHER -> t


osc_dispatch(t, params) ==
    IF Len(params) >= 2
    THEN LET command == params[1]
             text_bytes == params[2]
         IN  IF command = "0" \/ command = "2"
             THEN [t EXCEPT !.title = text_bytes]
             ELSE t
    ELSE t

(***************************************************************************)
(* csi_dispatch.  `params` is the sequence of the parameters' first values *)
(* (u16), as `params.iter().map(|x| x[0])` yields them.                    *)
(***************************************************************************)

(* the closure p: parameter i, missing -> 1, 0 -> 1 *)
p(params, i) ==
    LET val == IF i < Len(params) THEN params[i + 1] ELSE 1
    IN  IF val = 0 THEN 1 ELSE val

(* params.iter().next().map(|x| x[0]).unwrap_or(0) *)
first_or_zero(params) == IF Len(params) > 0 THEN params[1] ELSE 0

(* the closure clear_cell applied to cells x0 .. x1-1 of grid row y;       *)
(* grid[y][x] is indexed only when the range is not empty                  *)
clear_cells(t, y, x0, x1) ==
    IF x0 >= x1
    THEN t
    ELSE IF y >= Len(t.grid) \/ x1 > Len(t.grid[y + 1])
         THEN Panic(t)
         ELSE [t EXCEPT !.grid[y + 1] =
                  [k \in 1..Len(t.grid[y + 1]) |->
                      IF x0 < k /\ k <= x1 THEN Cell_default ELSE t.grid[y + 1][k]]]

(* clear_cell applied to every cell of the grid rows y0 .. y1-1 *)
clear_rows(t, y0, y1) ==
    IF y0 >= y1
    THEN t
    ELSE IF y1 > Len(t.grid)
         THEN Panic(t)
         ELSE [t EXCEPT !.grid =
                  [y \in 1..Len(t.grid) |->
                      IF y0 < y /\ y <= y1
                      THEN [k \in 1..Len(t.grid[y]) |-> Cell_default]
                      ELSE t.grid[y]]]

csi_A(t, params) == [t EXCEPT !.cursor_y = saturating_sub(t.cursor_y, p(params, 0))]

csi_B(t, params) ==
    IF t.rows = 0 THEN Panic(t)
    ELSE [t EXCEPT !.cursor_y = Min(t.cursor_y + p(params, 0), t.rows - 1)]

(* mutant of csi_C: clamps to cols instead of cols - 1 *)
csi_C_clamp_cols(t, params) ==
    [t EXCEPT !.cursor_x = Min(t.cursor_x + p(params, 0), t.cols)]

csi_C(t, params) ==
    IF t.cols = 0 THEN Panic(t)
    ELSE [t EXCEPT !.cursor_x = Min(t.cursor_x + p(params, 0), t.cols - 1)]

csi_D(t, params) == [t EXCEPT !.cursor_x = saturating_sub(t.cursor_x, p(params, 0))]

csi_H(t, params) ==
    LET row == saturating_sub(p(params, 0), 1)
        col == saturating_sub(p(params, 1), 1)
    IN  IF t.rows = 0 \/ t.cols = 0 THEN Panic(t)
        ELSE [t EXCEPT !.cursor_y = Min(row, t.rows - 1),
                       !.cursor_x = Min(col, t.cols - 1)]

(* mutant of csi_G: the column parameter is taken as 0-based *)
csi_G_zero_based(t, params) ==
    [t EXCEPT !.cursor_x = Min(p(params, 0), t.cols - 1)]

csi_G(t, params) ==
    IF t.cols = 0 THEN Panic(t)
    ELSE [t EXCEPT !.cursor_x = Min(saturating_sub(p(params, 0), 1), t.cols - 1)]

csi_d(t, params) ==
    IF t.rows = 0 THEN Panic(t)
    ELSE [t EXCEPT !.cursor_y = Min(saturating_sub(p(params, 0), 1), t.rows - 1)]

(* mutant of csi_J: ED 2 clears the grid and leaves the cursor where it was *)
csi_J_keep_cursor(t, params) ==
    LET param == first_or_zero(params)
    IN  IF param = 2
        THEN clear_rows(t, 0, Len(t.grid))
        ELSE LET t1 == IF t.cursor_y < t.rows
                       THEN clear_cells(t, t.cursor_y, t.cursor_x, t.cols)
                       ELSE t
             IN  IF t1.panicked THEN t1 ELSE clear_rows(t1, t.cursor_y + 1, t.rows)

csi_J(t, params) ==
    LET param == first_or_zero(params)
    IN  IF param = 2
        THEN [clear_rows(t, 0, Len(t.grid)) EXCEPT !.cursor_x = 0, !.cursor_y = 0]
        ELSE LET t1 == IF t.cursor_y < t.rows
                       THEN clear_cells(t, t.cursor_y, t.cursor_x, t.cols)
                       ELSE t
             IN  IF t1.panicked THEN t1 ELSE clear_rows(t1, t.cursor_y + 1, t.rows)

csi_K(t, params) ==
    LET param == first_or_zero(params)
    IN  CASE param = 2 ->
                IF t.cursor_y >= Len(t.grid)
                THEN Panic(t)
                ELSE clear_cells(t, t.cursor_y, 0, Len(t.grid[t.cursor_y + 1]))
          [] param = 1 -> clear_cells(t, t.cursor_y, 0, t.cursor_x)
          [] OTHER -> clear_cells(t, t.cursor_y, t.cursor_x, t.cols)

(* `for _ in 0..count { body }`, stopping early once the body no longer     *)
(* changes the state (every further iteration then leaves it unchanged too) *)
RECURSIVE repeat_L(_, _, _, _)
repeat_L(t, cy, blank_row, count) ==
    IF count = 0
    THEN t
    ELSE IF t.scroll_bottom >= Len(t.grid)
         THEN Panic(t)
         ELSE LET g1 == Vec_remove(t.grid, t.scroll_bottom)
              IN  IF cy > Len(g1)
                  THEN Panic([t EXCEPT !.grid = g1])
                  ELSE LET t1 == [t EXCEPT !.grid = Vec_insert(g1, cy, blank_row)]
                       IN  IF t1 = t THEN t ELSE repeat_L(t1, cy, blank_row, count - 1)

(* mutant of csi_L: inserts the blank row without removing the row at scroll_bottom *)
csi_L_no_remove(t, params) ==
    IF t.cursor_y >= t.scroll_top /\ t.cursor_y <= t.scroll_bottom
    THEN [t EXCEPT !.grid = Vec_insert(t.grid, t.cursor_y, Vec_repeat(blank_cell(t), t.cols))]
    ELSE t

csi_L(t, params) ==
    LET count == p(params, 0)
        cy == t.cursor_y
        blank_row == Vec_repeat(blank_cell(t), t.cols)
    IN  IF cy >= t.scroll_top /\ cy <= t.scroll_bottom
        THEN repeat_L(t, cy, blank_row, count)
        ELSE t

(* DL that deletes one row at the cursor and puts the blank row at the last *)
(* row of the grid, whatever the scroll region                              *)
csi_M_ignore_region(t, params) ==
    [t EXCEPT !.grid = Append(Vec_remove(t.grid, t.cursor_y),
                              Vec_repeat(blank_cell(t), t.cols))]

RECURSIVE repeat_M(_, _, _, _)
repeat_M(t, cy, blank_row, count) ==
    IF count = 0
    THEN t
    ELSE IF cy >= Len(t.grid)
         THEN Panic(t)
         ELSE LET g1 == Vec_remove(t.grid, cy)
              IN  IF t.scroll_bottom > Len(g1)
                  THEN Panic([t EXCEPT !.grid = g1])
                  ELSE LET t1 == [t EXCEPT !.grid = Vec_insert(g1, t.scroll_bottom, blank_row)]
                       IN  IF t1 = t THEN t ELSE repeat_M(t1, cy, blank_row, count - 1)

csi_M(t, params) ==
    LET count == p(params, 0)
        cy == t.cursor_y
        blank_row == Vec_repeat(blank_cell(t), t.cols)
    IN  IF cy >= t.scroll_top /\ cy <= t.scroll_bottom
        THEN repeat_M(t, cy, blank_row, count)
        ELSE t

RECURSIVE repeat_P(_, _, _, _, _)
repeat_P(t, cx, cy, blank, count) ==
    IF count = 0
    THEN t
    ELSE IF cy >= Len(t.grid)
         THEN Panic(t)
         ELSE IF cx < Len(t.grid[cy + 1])
              THEN LET t1 == [t EXCEPT !.grid[cy + 1] =
                                  Append(Vec_remove(t.grid[cy + 1], cx), blank)]
                   IN  IF t1 = t THEN t ELSE repeat_P(t1, cx, cy, blank, count - 1)
              ELSE t

csi_P(t, params) == repeat_P(t, t.cursor_x, t.cursor_y, blank_cell(t), p(params, 0))

RECURSIVE repeat_at(_, _, _, _, _)
repeat_at(t, cx, cy, blank, count) ==
    IF count = 0
    THEN t
    ELSE IF cx < t.cols
         THEN IF cy >= Len(t.grid) \/ cx > Len(t.grid[cy + 1])
              THEN Panic(t)
              ELSE LET r1 == Vec_insert(t.grid[cy + 1], cx, blank)
                       t1 == [t EXCEPT !.grid[cy + 1] = SubSeq(r1, 1, Len(r1) - 1)]
                   IN  IF t1 = t THEN t ELSE repeat_at(t1, cx, cy, blank, count - 1)
         ELSE t

csi_at(t, params) == repeat_at(t, t.cursor_x, t.cursor_y, blank_cell(t), p(params, 0))

(* mutant of csi_r: no `bottom must be > top` validation *)
csi_r_unvalidated(t, params) ==
    LET top == saturating_sub(p(params, 0), 1)
        bot == IF Len(params) > 1 THEN saturating_sub(p(params, 1), 1) ELSE t.rows - 1
    IN  [t EXCEPT !.scroll_top = Min(top, t.rows - 1),
                  !.scroll_bottom = Min(bot, t.rows - 1),
                  !.cursor_x = 0,
                  !.cursor_y = 0]

csi_r(t, params) ==
    IF t.rows = 0
    THEN Panic(t)
    ELSE LET top == saturating_sub(p(params, 0), 1)
             bot == IF Len(params) > 1 THEN saturating_sub(p(params, 1), 1) ELSE t.rows - 1
             st == Min(top, t.rows - 1)
             sb == Min(bot, t.rows - 1)
             valid == ~(sb <= st)
         IN  [t EXCEPT !.scroll_top = IF valid THEN st ELSE 0,
                       !.scroll_bottom = IF valid THEN sb ELSE saturating_sub(t.rows, 1),
                       !.cursor_x = 0,
                       !.cursor_y = 0]

MouseModes == {1000, 1002, 1006, 1015}

(* `for p in params { match p[0] { 1000|1002|1006|1015 => mouse_reporting = on, .. } }` *)
set_mouse_modes(t, params, on) ==
    IF \E i \in 1..Len(params) : params[i] \in MouseModes
    THEN [t EXCEPT !.mouse_reporting = on]
    ELSE t

csi_h(t, params) == set_mouse_modes(t, params, TRUE)

csi_l(t, params) == set_mouse_modes(t, params, FALSE)

(* sgr_param whose parameter 0 resets the foreground only *)
sgr_param_reset_fg_only(t, v) ==
    CASE v = 0 -> [t EXCEPT !.current_fg = "DefaultFg"]
      [] v = 7 -> [t EXCEPT !.current_inverse = TRUE]
      [] v \in 30..37 -> [t EXCEPT !.current_fg = StandardColors[v - 29]]
      [] v \in 40..47 -> [t EXCEPT !.current_bg = StandardColors[v - 39]]
      [] OTHER -> t

(* one parameter of SGR *)
sgr_param(t, v) ==
    CASE v = 0 -> [t EXCEPT !.current_fg = "DefaultFg", !.current_bg = "DefaultBg",
                            !.current_inverse = FALSE]
      [] v = 1 -> IF \E k \in 1..8 : StandardColors[k] = t.current_fg
                  THEN [t EXCEPT !.current_fg =
                           BrightColors[CHOOSE k \in 1..8 : StandardColors[k] = t.current_fg]]
                  ELSE t
      [] v = 7 -> [t EXCEPT !.current_inverse = TRUE]
      [] v = 27 -> [t EXCEPT !.current_inverse = FALSE]
      [] v \in 30..37 -> [t EXCEPT !.current_fg = StandardColors[v - 29]]
      [] v = 39 -> [t EXCEPT !.current_fg = "DefaultFg"]
      [] v \in 40..47 -> [t EXCEPT !.current_bg = StandardColors[v - 39]]
      [] v = 49 -> [t EXCEPT !.current_bg = "DefaultBg"]
      [] v \in 90..97 -> [t EXCEPT !.current_fg = BrightColors[v - 89]]
      [] OTHER -> t

RECURSIVE sgr_params(_, _, _)
sgr_params(t, params, i) ==
    IF i > Len(params) THEN t ELSE sgr_params(sgr_param(t, params[i]), params, i + 1)

csi_m(t, params) ==
    IF Len(params) = 0
    THEN [t EXCEPT !.current_fg = "DefaultFg", !.current_bg = "DefaultBg",
                   !.current_inverse = FALSE]
    ELSE sgr_params(t, params, 1)

csi_dispatch(t, params, action) ==
    CASE action = "A" -> csi_A(t, params)
      [] action = "B" -> csi_B(t, params)
      [] action = "C" -> csi_C(t, params)
      [] action = "D" -> csi_D(t, params)
      [] action \in {"H", "f"} -> csi_H(t, params)
      [] action = "G" -> csi_G(t, params)
      [] action = "d" -> csi_d(t, params)
      [] action = "J" -> csi_J(t, params)
      [] action = "K" -> csi_K(t, params)
      [] action = "L" -> csi_L(t, params)
      [] action = "M" -> csi_M(t, params)
      [] action = "P" -> csi_P(t, params)
      [] action = "@" -> csi_at(t, params)
      [] action = "r" -> csi_r(t, params)
      [] action = "h" -> csi_h(t, params)
      [] action = "l" -> csi_l(t, params)
      [] action = "m" -> csi_m(t, params)
      [] OTHER -> t


(***************************************************************************)
(* Scrollback view and selection text                                      *)
(***************************************************************************)

(* mutant of get_visible_row: the live grid row, whatever scroll_offset is *)
get_visible_row_unscrolled(t, screen_y, checked) ==
    IF screen_y >= Len(t.grid)
    THEN [panic |-> TRUE, row |-> <<>>]
    ELSE [panic |-> FALSE, row |-> t.grid[screen_y + 1]]

(* get_visible_row: [panic, row].  `rows - 1 - screen_y` below zero panics *)
(* with overflow checks; without them the subtraction and the addition     *)
(* that follows wrap, which gives the same effective_offset when the sum   *)
(* is not negative and an index far past the end when it is.               *)
get_visible_row(t, screen_y, checked) ==
    IF t.scroll_offset = 0
    THEN IF screen_y >= Len(t.grid)
         THEN [panic |-> TRUE, row |-> <<>>]
         ELSE [panic |-> FALSE, row |-> t.grid[screen_y + 1]]
    ELSE LET total_history == Len(t.history)
             effective_offset == t.scroll_offset + (t.rows - 1 - screen_y)
         IN  IF (checked /\ t.rows - 1 < screen_y) \/ effective_offset < 0
             THEN [panic |-> TRUE, row |-> <<>>]
             ELSE IF effective_offset >= t.rows
                  THEN LET back == effective_offset - t.rows + 1
                       IN  IF back > total_history \/ total_history - back >= total_history
                           THEN [panic |-> TRUE, row |-> <<>>]
                           ELSE [panic |-> FALSE, row |-> t.history[total_history - back + 1]]
                  ELSE LET grid_index == t.rows - effective_offset - 1
                       IN  IF grid_index >= Len(t.grid)
                           THEN [panic |-> TRUE, row |-> <<>>]
                           ELSE [panic |-> FALSE, row |-> t.grid[grid_index + 1]]

(* mutant of selected_rows: a line break after every row, the last included *)
RECURSIVE selected_rows_trailing_newline(_, _, _, _, _)
selected_rows_trailing_newline(t, r, p1, p2, checked) ==
    IF r > p2[2]
    THEN [panic |-> FALSE, text |-> <<>>]
    ELSE LET row == get_visible_row(t, r, checked).row
             start_col == IF r = p1[2] THEN p1[1] ELSE 0
             end_col == IF r = p2[2] THEN p2[1] ELSE t.cols - 1
             last == IF end_col < Len(row) - 1 THEN end_col ELSE Len(row) - 1
             chars == IF last < start_col
                      THEN <<>>
                      ELSE [k \in 1..(last - start_col + 1) |-> row[start_col + k].char]
         IN  [panic |-> FALSE,
              text |-> chars \o <<"\n">>
                          \o selected_rows_trailing_newline(t, r + 1, p1, p2, checked).text]

(* the normalisation of (selection_start, selection_end): by row, then column *)
ordered_selection(start, end) ==
    IF start[2] < end[2] \/ (start[2] = end[2] /\ start[1] <= end[1])
    THEN <<start, end>>
    ELSE <<end, start>>

(* mutant of is_selected: anchor and head are taken as (p1, p2) in the order given *)
is_selected_unordered(t, col, row) ==
    IF t.selection_start # <<>> /\ t.selection_end # <<>>
    THEN LET p1 == t.selection_start
             p2 == t.selection_end
         IN  CASE row < p1[2] \/ row > p2[2] -> FALSE
               [] row = p1[2] /\ row = p2[2] -> col >= p1[1] /\ col <= p2[1]
               [] row = p1[2] -> col >= p1[1]
               [] row = p2[2] -> col <= p2[1]
               [] OTHER -> TRUE
    ELSE FALSE

is_selected(t, col, row) ==
    IF t.selection_start # <<>> /\ t.selection_end # <<>>
    THEN LET o == ordered_selection(t.selection_start, t.selection_end)
             p1 == o[1]
             p2 == o[2]
         IN  CASE row < p1[2] \/ row > p2[2] -> FALSE
               [] row = p1[2] /\ row = p2[2] -> col >= p1[1] /\ col <= p2[1]
               [] row = p1[2] -> col >= p1[1]
               [] row = p2[2] -> col <= p2[1]
               [] OTHER -> TRUE
    ELSE FALSE

(* the iterations r ..= p2.row of get_selected_text's loop: [panic, text] *)
RECURSIVE selected_rows(_, _, _, _, _)
selected_rows(t, r, p1, p2, checked) ==
    IF r > p2[2]
    THEN [panic |-> FALSE, text |-> <<>>]
    ELSE LET v == get_visible_row(t, r, checked)
         IN  IF v.panic \/ t.cols = 0
             THEN [panic |-> TRUE, text |-> <<>>]
             ELSE LET start_col == IF r = p1[2] THEN p1[1] ELSE 0
                      end_col == IF r = p2[2] THEN p2[1] ELSE t.cols - 1
                      last == Min(end_col, Len(v.row) - 1)
                      chars == IF last < start_col
                               THEN <<>>
                               ELSE [k \in 1..(last - start_col + 1) |-> v.row[start_col + k].char]
                      rest == selected_rows(t, r + 1, p1, p2, checked)
                  IN  IF rest.panic
                      THEN rest
                      ELSE [panic |-> FALSE,
                            text |-> chars \o (IF r # p2[2] THEN <<"\n">> ELSE <<>>) \o rest.text]

get_selected_text(t, checked) ==
    IF t.selection_start # <<>> /\ t.selection_end # <<>>
    THEN LET o == ordered_selection(t.selection_start, t.selection_end)
         IN  selected_rows(t, o[1][2], o[1], o[2], checked)
    ELSE [panic |-> FALSE, text |-> <<>>]

start_selection(t, col, row) ==
    [t EXCEPT !.selection_start = <<col, row>>, !.selection_end = <<col, row>>]

update_selection(t, col, row) ==
    IF t.selection_start # <<>> THEN [t EXCEPT !.selection_end = <<col, row>>] ELSE t

clear_selection(t) == [t EXCEPT !.selection_start = <<>>, !.selection_end = <<>>]

(***************************************************************************)
(* RoseWindow (src/gui/window.rs).  The handlers work on the pair          *)
(* st = [t |-> the terminal, w |-> the window record].  A byte is a        *)
(* string: a printable ASCII character stands for itself, the others have  *)
(* names ("ESC", "DEL", "^A", "0xC3", ...).                                *)
(***************************************************************************)
(* FontRenderer::draw: the cell painted at each screen position (its        *)
(* background rectangle and its glyph in the foreground colour), and the   *)
(* cell whose pixels are inverted for the cursor                           *)
draw(term) ==
    [ rows   |-> [row_idx \in 1..Len(term.grid) |->
                    [col_idx \in 1..Len(term.grid[row_idx]) |-> term.grid[row_idx][col_idx]]],
      cursor |-> <<term.cursor_x, term.cursor_y>> ]

RoseWindow_new(c, r, checked) ==
    [ is_selecting    |-> FALSE,
      last_key        |-> "None",
      written         |-> <<>>,
      redraw          |-> FALSE,
      title           |-> "RoseTerm",
      pty_size        |-> <<r, c>>,
      clipboard       |-> <<>>,
      frame           |-> <<>>,
      overflow_checks |-> checked ]

write_all(st, bytes) == [st EXCEPT !.w.written = @ \o bytes]

request_redraw(st) == [st EXCEPT !.w.redraw = TRUE]

(* `if self.terminal.scroll_offset > 0 { self.terminal.scroll_offset = 0; }` *)
reset_scroll_offset(st) ==
    IF st.t.scroll_offset > 0 THEN [st EXCEPT !.t.scroll_offset = 0] ELSE st

Digits == <<"0", "1", "2", "3", "4", "5", "6", "7", "8", "9">>

(* `{}` of format! applied to an unsigned integer *)
RECURSIVE decimal(_)
decimal(n) == IF n < 10 THEN <<Digits[n + 1]>> ELSE decimal(n \div 10) \o <<Digits[(n % 10) + 1]>>

encode_mouse(button, x, y, release) ==
    <<"ESC", "[", "<">> \o decimal(button) \o <<";">> \o decimal(x + 1) \o <<";">>
        \o decimal(y + 1) \o <<IF release THEN "m" ELSE "M">>

CtrlKeys ==
    <<"A", "B", "C", "D", "E", "F", "G", "H", "I", "J", "K", "L", "M", "N", "O", "P", "Q",
      "R", "S", "T", "U", "V", "W", "X", "Y", "Z", "LBracket", "RBracket", "Backslash">>

(* ctrl_key_to_byte, for the keys handle_input asks about *)
ctrl_key_to_byte(key) ==
    CASE key = "LBracket" -> "ESC"
      [] key = "Backslash" -> "^\\"
      [] key = "RBracket" -> "^]"
      [] OTHER -> "^" \o key

(* char::encode_utf8: an ASCII character is one byte, itself *)
encode_utf8(c) == IF c = "e'" THEN <<"0xC3", "0xA9">> ELSE <<c>>

process_special_key(st, key, held_shift, held_ctrl) ==
    CASE key = "Return" -> write_all(reset_scroll_offset(st), <<"\r">>)
      [] key = "Escape" -> write_all(st, <<"ESC">>)
      [] key = "Back" -> write_all(reset_scroll_offset(st), <<"DEL">>)
      [] key = "Delete" -> write_all(st, <<"ESC", "[", "3", "~">>)
      [] key = "Up" ->
            IF held_shift /\ ~held_ctrl
            THEN [st EXCEPT !.t = scroll_up(st.t, 1)]
            ELSE write_all(st, <<"ESC", "[", "A">>)
      [] key = "Down" ->
            IF held_shift /\ ~held_ctrl
            THEN [st EXCEPT !.t = scroll_down(st.t, 1)]
            ELSE write_all(st, <<"ESC", "[", "B">>)
      [] key = "Right" -> write_all(st, <<"ESC", "[", "C">>)
      [] key = "Left" -> write_all(st, <<"ESC", "[", "D">>)
      [] key = "PageUp" ->
            IF held_shift
            THEN [st EXCEPT !.t = scroll_up(st.t, 10)]
            ELSE write_all(st, <<"ESC", "[", "5", "~">>)
      [] key = "PageDown" ->
            IF held_shift
            THEN [st EXCEPT !.t = scroll_down(st.t, 10)]
            ELSE write_all(st, <<"ESC", "[", "6", "~">>)
      [] key = "Home" -> write_all(st, <<"ESC", "[", "H">>)
      [] key = "End" -> write_all(st, <<"ESC", "[", "F">>)
      [] OTHER -> st

(* an input frame with nothing in it: what WinitInputHelper reports *)
NoInput ==
    [ held_control   |-> FALSE,
      held_shift     |-> FALSE,
      held_alt       |-> FALSE,
      text           |-> <<>>,      \* the TextChar::Char characters of input.text()
      pressed        |-> {},        \* key_pressed
      held           |-> {},        \* key_held
      repeat_due     |-> FALSE,     \* Instant::now() >= repeat_deadline
      mouse          |-> <<>>,      \* <<>> or <<col, row>>: input.mouse() / the cell size
      mouse_pressed  |-> {},        \* mouse_pressed(button)
      mouse_released |-> {},        \* mouse_released(button)
      scroll_diff    |-> 0,
      clipboard_ok   |-> TRUE,      \* the clipboard calls succeed
      resized        |-> <<>> ]     \* <<>> or <<cols, rows>>: input.window_resized() / the cell size

(* 1. regular text *)
RECURSIVE input_text(_, _, _)
input_text(st, text, i) ==
    IF i > Len(text)
    THEN st
    ELSE input_text(write_all(reset_scroll_offset(st), encode_utf8(text[i])), text, i + 1)

(* 2. control codes *)
RECURSIVE input_ctrl(_, _, _)
input_ctrl(st, inp, i) ==
    IF i > Len(CtrlKeys)
    THEN st
    ELSE IF CtrlKeys[i] \in inp.pressed
         THEN input_ctrl(write_all(reset_scroll_offset(st), <<ctrl_key_to_byte(CtrlKeys[i])>>),
                         inp, i + 1)
         ELSE input_ctrl(st, inp, i + 1)

keys_to_check ==
    <<"Return", "Escape", "Back", "Delete", "Up", "Down", "Left", "Right",
      "PageUp", "PageDown", "Home", "End">>

(* 3. special keys and their repeat *)
input_special(st, inp) ==
    IF \E i \in 1..Len(keys_to_check) : keys_to_check[i] \in inp.pressed
    THEN LET i == CHOOSE k \in 1..Len(keys_to_check) :
                      /\ keys_to_check[k] \in inp.pressed
                      /\ \A j \in 1..(k - 1) : keys_to_check[j] \notin inp.pressed
             st1 == process_special_key(st, keys_to_check[i], inp.held_shift, inp.held_control)
         IN  [st1 EXCEPT !.w.last_key = keys_to_check[i]]
    ELSE IF st.w.last_key # "None"
         THEN IF st.w.last_key \in inp.held
              THEN IF inp.repeat_due
                   THEN process_special_key(st, st.w.last_key, inp.held_shift, inp.held_control)
                   ELSE st
              ELSE [st EXCEPT !.w.last_key = "None"]
         ELSE st

clipboard_get(st, inp) == inp.clipboard_ok /\ st.w.clipboard # <<>>

(* str::as_bytes *)
RECURSIVE as_bytes(_)
as_bytes(text) == IF text = <<>> THEN <<>> ELSE encode_utf8(Head(text)) \o as_bytes(Tail(text))

(* 4. Shift+Insert, Ctrl+Shift+C, Ctrl+Shift+V *)
input_copy_paste(st, inp) ==
    LET insert_stage(s) ==
            IF inp.held_shift /\ "Insert" \in inp.pressed /\ clipboard_get(s, inp)
            THEN write_all(reset_scroll_offset(s), as_bytes(s.w.clipboard[1]))
            ELSE s
        copy_text(s, sel) ==
            IF sel.panic
            THEN [s EXCEPT !.t = Panic(s.t)]
            ELSE IF sel.text # <<>> /\ inp.clipboard_ok
                 THEN [s EXCEPT !.w.clipboard = <<sel.text>>]
                 ELSE s
        copy_stage(s) ==
            IF inp.held_control /\ inp.held_shift /\ "C" \in inp.pressed
            THEN CHOOSE r \in { copy_text(s, sel) : sel \in
                               { get_selected_text(s.t, s.w.overflow_checks) } } : TRUE
            ELSE s
        paste_stage(s) ==
            IF ~s.t.panicked /\ inp.held_control /\ inp.held_shift /\ "V" \in inp.pressed
               /\ clipboard_get(s, inp)
            THEN write_all(s, as_bytes(s.w.clipboard[1]))
            ELSE s
    IN  CHOOSE r \in { paste_stage(s2) : s2 \in
                     { copy_stage(s1) : s1 \in { insert_stage(st) } } } : TRUE

(* 5. mouse, reported to the application *)
input_mouse_report(st, inp, col, row) ==
    LET left_press(s) ==
            IF 0 \in inp.mouse_pressed
            THEN write_all(s, encode_mouse(0, col, row, FALSE)) ELSE s
        left_release(s) ==
            IF 0 \in inp.mouse_released
            THEN write_all(s, encode_mouse(0, col, row, TRUE)) ELSE s
        right_press(s) ==
            IF 1 \in inp.mouse_pressed
            THEN write_all(s, encode_mouse(2, col, row, FALSE)) ELSE s
        wheel(s) ==
            IF inp.scroll_diff > 0
            THEN write_all(s, encode_mouse(64, col, row, FALSE))
            ELSE IF inp.scroll_diff < 0
                 THEN write_all(s, encode_mouse(65, col, row, FALSE))
                 ELSE s
    IN  CHOOSE r \in { wheel(s3) : s3 \in
                     { right_press(s2) : s2 \in
                       { left_release(s1) : s1 \in { left_press(st) } } } } : TRUE

(* 5. mouse, handled locally: selection and scrollback *)
input_mouse_local(st, inp, col, row) ==
    LET left_press(s) ==
            IF 0 \in inp.mouse_pressed
            THEN request_redraw([s EXCEPT !.w.is_selecting = TRUE,
                                          !.t = start_selection(s.t, col, row)])
            ELSE s
        drag(s) ==
            IF s.w.is_selecting
            THEN request_redraw([s EXCEPT !.t = update_selection(s.t, col, row)])
            ELSE s
        left_release(s) ==
            IF 0 \in inp.mouse_released
            THEN IF s.t.selection_start = s.t.selection_end
                 THEN request_redraw([s EXCEPT !.w.is_selecting = FALSE,
                                               !.t = clear_selection(s.t)])
                 ELSE [s EXCEPT !.w.is_selecting = FALSE]
            ELSE s
        copy_text(s, sel) ==
            IF sel.panic
            THEN [s EXCEPT !.t = Panic(s.t)]
            ELSE IF sel.text # <<>>
                 THEN request_redraw(
                         [s EXCEPT !.w.clipboard = IF inp.clipboard_ok THEN <<sel.text>> ELSE @,
                                   !.t = clear_selection(s.t)])
                 ELSE s
        right_release(s) ==
            IF 1 \in inp.mouse_released
            THEN CHOOSE r \in { copy_text(s, sel) : sel \in
                               { get_selected_text(s.t, s.w.overflow_checks) } } : TRUE
            ELSE s
        wheel(s) ==
            IF s.t.panicked
            THEN s
            ELSE IF inp.scroll_diff > 0
                 THEN request_redraw([s EXCEPT !.t = scroll_up(s.t, 3)])
                 ELSE IF inp.scroll_diff < 0
                      THEN request_redraw([s EXCEPT !.t = scroll_down(s.t, 3)])
                      ELSE s
    IN  CHOOSE r \in { wheel(s4) : s4 \in
                     { right_release(s3) : s3 \in
                       { left_release(s2) : s2 \in
                         { drag(s1) : s1 \in { left_press(st) } } } } } : TRUE

input_mouse(st, inp) ==
    IF inp.mouse # <<>>
    THEN IF st.t.mouse_reporting /\ ~inp.held_shift
         THEN input_mouse_report(st, inp, inp.mouse[1], inp.mouse[2])
         ELSE input_mouse_local(st, inp, inp.mouse[1], inp.mouse[2])
    ELSE st

(* the stages of handle_input, each applied to the state its predecessor  *)
(* left (the image of a one-element set is the value of a sequential step) *)
handle_input(st, inp) ==
    LET is_copy_paste_hotkey == inp.held_control /\ inp.held_shift
        text_stage(s) ==
            IF ~inp.held_control /\ ~inp.held_alt THEN input_text(s, inp.text, 1) ELSE s
        ctrl_stage(s) ==
            IF inp.held_control /\ ~is_copy_paste_hotkey THEN input_ctrl(s, inp, 1) ELSE s
        mouse_stage(s) == IF s.t.panicked THEN s ELSE input_mouse(s, inp)
    IN  CHOOSE r \in { mouse_stage(s4) : s4 \in
                     { input_copy_paste(s3, inp) : s3 \in
                       { input_special(s2, inp) : s2 \in
                         { ctrl_stage(s1) : s1 \in { text_stage(st) } } } } } : TRUE

(* run(): the UserEvent(PtyOutput) arm, after on_pty_data has fed the batch *)
(* to the parser and left the terminal as t                                 *)
on_pty_data(w, t) == [w EXCEPT !.written = <<>>, !.title = t.title, !.redraw = TRUE]

(* run(): the `if input.update(&event) { .. }` block of one input frame *)
on_input(st0, inp) ==
    LET resized_stage(s) ==
            IF inp.resized # <<>>
            THEN request_redraw(
                    IF inp.resized[1] > 0 /\ inp.resized[2] > 0
                    THEN [s EXCEPT !.t = resize(s.t, inp.resized[1], inp.resized[2]),
                                   !.w.pty_size = <<inp.resized[2], inp.resized[1]>>]
                    ELSE s)
            ELSE s
        input_stage(s) == IF s.t.panicked THEN s ELSE handle_input(s, inp)
        redraw_stage(s) ==
            IF ~s.t.panicked /\ (s.t.scroll_offset > 0 \/ inp.held_shift \/ s.w.is_selecting)
            THEN request_redraw(s)
            ELSE s
    IN  CHOOSE r \in { redraw_stage(s2) : s2 \in
                     { input_stage(s1) : s1 \in
                       { resized_stage(s) : s \in
                         { [st0 EXCEPT !.w.written = <<>>, !.w.redraw = FALSE] } } } } : TRUE

(***************************************************************************)
(* Inputs                                                                  *)
(***************************************************************************)
Glyphs == {"a"}

C0Bytes == {LF, CR, BS, BEL}

(* parameter values: small ones around the grid size, and the u16 maximum *)
ParamValues == (0..MaxParam) \cup {65535}

OneParam == {<<>>} \cup {<<a>> : a \in ParamValues}

TwoParams == OneParam \cup {<<a, b>> : a, b \in ParamValues}

SgrLists == {<<>>}

ModeLists == {<<25>>}

Finals == {"A", "B", "C", "D", "H", "f", "G", "d", "J", "K", "L", "M", "P", "@", "r", "h", "l", "m", "s"}

(* the parameter lists tried with each final: the finals that read only    *)
(* p(0) get at most one parameter                                          *)
CsiParams(action) ==
    CASE action = "m" -> SgrLists
      [] action \in {"h", "l"} -> ModeLists
      [] action \in {"H", "f", "r"} -> TwoParams
      [] OTHER -> OneParam

(* the terminal sizes tried: at most MaxCells cells *)
Dims == {d \in (1..MaxCols) \X (1..MaxRows) : d[1] * d[2] <= MaxCells}

OscInputs == {<<"0", "RoseTerm">>, <<"2", "RoseTerm">>, <<"1", "x">>, <<"0">>, <<>>}

(***************************************************************************)
(* The PTY reader thread (Pty::spawn) and the event loop's user events.    *)
(***************************************************************************)
Pty_spawn == [reader |-> "reading", read |-> <<>>, queue |-> <<>>, fed |-> <<>>, exit |-> FALSE]

(* proxy.send_event with the queue put in front of the new batch *)
send_event_front(q, bytes) == [q EXCEPT !.queue = <<bytes>> \o @]

(* the reader leaving its loop and ending the event loop with it *)
reader_break_exit(q) == [q EXCEPT !.reader = "exited", !.exit = TRUE]

(* `Ok(n) => proxy.send_event(RoseEvent::PtyOutput(buffer[..n].to_vec()))`: *)
(* the event loop hands user events to the callback in the order sent      *)
send_event(q, bytes) == [q EXCEPT !.queue = Append(@, bytes)]

(* `Ok(0) => break` and `Err(_) => break` *)
reader_break(q) == [q EXCEPT !.reader = "exited"]

(* parser.advance(&mut terminal, byte) with the parser in its ground state: *)
(* a line feed is executed, a printable byte is printed                     *)
advance(t, byte) == IF byte = "\n" THEN execute(t, LF) ELSE print(t, byte)

(* `for byte in data { self.parser.advance(&mut self.terminal, byte); }` *)
RECURSIVE advance_all(_, _)
advance_all(t, data) ==
    IF data = <<>> \/ t.panicked
    THEN t
    ELSE advance_all(advance(t, Head(data)), Tail(data))

(***************************************************************************)
(* The state machine: the Perform callbacks the parser makes while the     *)
(* coordinator feeds it PTY output, and the resize the coordinator makes   *)
(* on a window resize.                                                     *)
(***************************************************************************)
Init ==
    /\ \E d \in Dims :
          /\ terminal = Terminal_new(d[1], d[2])
          /\ win = RoseWindow_new(d[1], d[2], TRUE)
    /\ lastOp = "new"
    /\ printed = <<>>
    /\ lastParams = <<>>
    /\ pty = Pty_spawn

Running == ~terminal.panicked

(* the model stops feeding output that would grow history past MaxHist *)
HistoryBounded(t) == Len(t.history) <= MaxHist

PrintStep(c) ==
    /\ Running
    /\ terminal' = print(terminal, c)
    /\ win' = on_pty_data(win, terminal')
    /\ lastOp' = "print"
    /\ lastParams' = <<>>
    /\ UNCHANGED pty
    /\ UNCHANGED printed

ExecuteStep(b) ==
    /\ Running
    /\ terminal' = execute(terminal, b)
    /\ win' = on_pty_data(win, terminal')
    /\ lastOp' = CASE b = LF -> IF lastOp = "CR" THEN "CRLF" ELSE "LF"
                    [] b = CR -> "CR"
                    [] b = BS -> "BS"
                    [] OTHER -> "C0"
    /\ lastParams' = <<>>
    /\ UNCHANGED pty
    /\ UNCHANGED printed

CsiStep(action, params) ==
    /\ Running
    /\ terminal' = csi_dispatch(terminal, params, action)
    /\ win' = on_pty_data(win, terminal')
    /\ lastOp' = action
    /\ lastParams' = <<>>
    /\ UNCHANGED pty
    /\ UNCHANGED printed

PrintGlyph ==
    /\ \E c \in Glyphs : PrintStep(c)
    /\ HistoryBounded(terminal')

Execute ==
    /\ \E b \in C0Bytes : ExecuteStep(b)
    /\ HistoryBounded(terminal')

CsiDispatch == \E action \in Finals : \E params \in CsiParams(action) : CsiStep(action, params)

OscDispatch ==
    /\ Running
    /\ \E params \in OscInputs : terminal' = osc_dispatch(terminal, params)
    /\ win' = on_pty_data(win, terminal')
    /\ lastOp' = "osc"
    /\ lastParams' = <<>>
    /\ UNCHANGED pty
    /\ UNCHANGED printed

(* one input frame *)
InputStep(name, inp) ==
    /\ Running
    /\ LET st == on_input([t |-> terminal, w |-> win], inp)
       IN  terminal' = st.t /\ win' = st.w
    /\ lastOp' = name
    /\ lastParams' = <<>>
    /\ UNCHANGED pty
    /\ UNCHANGED printed

(* an input frame that holds a window resize and nothing else *)
Resize ==
    \E d \in Dims : \E inp \in {[NoInput EXCEPT !.resized = d]} : InputStep("resize", inp)

Next ==
    \/ PrintGlyph
    \/ Execute
    \/ CsiDispatch
    \/ OscDispatch
    \/ Resize

Spec == Init /\ [][Next]_vars

(***************************************************************************)
(* The same machine started with scrollback that is nearly full: the state *)
(* Terminal::new(1, r) is in after print('a'), r - 1 line feeds that bring *)
(* the cursor to the last row, and n more line feeds, each retiring grid   *)
(* row 0 (the first one the row holding 'a', the others blank rows).       *)
(***************************************************************************)
Terminal_scrolled(r, n) ==
    [Terminal_new(1, r) EXCEPT
        !.history = [i \in 1..n |-> <<[Cell_default EXCEPT !.char = IF i = 1 THEN "a" ELSE " "]>>],
        !.cursor_x = 1,
        !.cursor_y = r - 1]

InitFull ==
    /\ \E r \in 2..MaxRows : \E n \in (HISTORY_LIMIT - 1)..HISTORY_LIMIT :
          /\ terminal = Terminal_scrolled(r, n)
          /\ win = on_pty_data(RoseWindow_new(1, r, TRUE), terminal)
    /\ lastOp = "LF"
    /\ printed = <<>>
    /\ lastParams = <<>>
    /\ pty = Pty_spawn

ExecuteFull == \E b \in C0Bytes : ExecuteStep(b)

SetMargins == \E params \in TwoParams : CsiStep("r", params)

MoveToLine == \E params \in OneParam : CsiStep("d", params)

NextFull ==
    \/ ExecuteFull
    \/ SetMargins
    \/ MoveToLine

SpecFull == InitFull /\ [][NextFull]_vars

(***************************************************************************)
(* Printing only: a fresh terminal that receives glyphs and no control     *)
(* bytes, until the screen is full.                                        *)
(***************************************************************************)
PrintGlyphs == {"a", "b"}

PrintDims == (1..MaxCols) \X (1..MaxRows)

InitPrint ==
    /\ \E d \in PrintDims :
          /\ terminal = Terminal_new(d[1], d[2])
          /\ win = RoseWindow_new(d[1], d[2], TRUE)
    /\ lastOp = "new"
    /\ printed = <<>>
    /\ lastParams = <<>>
    /\ pty = Pty_spawn

PrintOnly ==
    /\ Running
    /\ Len(printed) < terminal.cols * terminal.rows
    /\ \E c \in PrintGlyphs :
          /\ terminal' = print(terminal, c)
          /\ printed' = Append(printed, c)
    /\ lastParams' = <<>>
    /\ UNCHANGED pty
    /\ win' = on_pty_data(win, terminal')
    /\ lastOp' = "print"

NextPrint == PrintOnly

SpecPrint == InitPrint /\ [][NextPrint]_vars

(***************************************************************************)
(* One-column terminals whose pen changes: print, the C0 controls, DECSTBM,*)
(* VPA and SGR.                                                            *)
(***************************************************************************)
PenLists == {<<>>, <<7>>}

PenDims == {d \in Dims : d[1] = 1}

InitPen ==
    /\ \E d \in PenDims :
          /\ terminal = Terminal_new(d[1], d[2])
          /\ win = RoseWindow_new(d[1], d[2], TRUE)
    /\ lastOp = "new"
    /\ printed = <<>>
    /\ lastParams = <<>>
    /\ pty = Pty_spawn

SetPen == \E params \in PenLists : CsiStep("m", params)

NextPen ==
    \/ PrintGlyph
    \/ Execute
    \/ SetMargins
    \/ MoveToLine
    \/ SetPen

SpecPen == InitPen /\ [][NextPen]_vars

(***************************************************************************)
(* The scrollback view: PTY output that retires rows, interleaved with the *)
(* keystrokes, wheel turns and resizes that move or reset the view.  The   *)
(* machine starts from a fresh terminal, or from Terminal::new(1, 2) with  *)
(* scrollback at the limit, the view at the bottom or (after enough        *)
(* Shift+PageUp) at the oldest row.                                        *)
(***************************************************************************)
ViewHist == 4

ViewDims == {<<1, 1>>, <<1, 2>>}

(* the history lengths and view positions the exploration keeps: short     *)
(* scrollback, or scrollback at the limit with the view near either end    *)
ViewBounded(t) ==
    /\ Len(t.history) <= ViewHist \/ Len(t.history) >= HISTORY_LIMIT
    /\ t.scroll_offset <= ViewHist \/ Len(t.history) - t.scroll_offset <= ViewHist

ViewInputs ==
    [ key_a            |-> [NoInput EXCEPT !.text = <<"a">>],
      Return           |-> [NoInput EXCEPT !.pressed = {"Return"}],
      ShiftUp          |-> [NoInput EXCEPT !.held_shift = TRUE, !.pressed = {"Up"}],
      ShiftDown        |-> [NoInput EXCEPT !.held_shift = TRUE, !.pressed = {"Down"}],
      ShiftPageUp      |-> [NoInput EXCEPT !.held_shift = TRUE, !.pressed = {"PageUp"}],
      ShiftPageDown    |-> [NoInput EXCEPT !.held_shift = TRUE, !.pressed = {"PageDown"}],
      WheelUp          |-> [NoInput EXCEPT !.mouse = <<0, 0>>, !.scroll_diff = 1],
      WheelDown        |-> [NoInput EXCEPT !.mouse = <<0, 0>>, !.scroll_diff = -1] ]

InitView ==
    /\ \/ \E d \in ViewDims :
             /\ terminal = Terminal_new(d[1], d[2])
             /\ win = RoseWindow_new(d[1], d[2], TRUE)
             /\ lastOp = "new"
       \/ \E n \in {HISTORY_LIMIT} : \E offset \in {0, n} :
             /\ terminal = [Terminal_scrolled(2, n) EXCEPT !.scroll_offset = offset]
             /\ IF offset = 0
                THEN /\ win = on_pty_data(RoseWindow_new(1, 2, TRUE), terminal)
                     /\ lastOp = "LF"
                ELSE /\ win = [RoseWindow_new(1, 2, TRUE) EXCEPT
                                  !.last_key = "PageUp", !.redraw = TRUE]
                     /\ lastOp = "ShiftPageUp"
    /\ printed = <<>>
    /\ lastParams = <<>>
    /\ pty = Pty_spawn

PtyOutputView ==
    /\ \E b \in {LF, CR} : ExecuteStep(b)
    /\ ViewBounded(terminal')

UserInputView ==
    /\ \E name \in DOMAIN ViewInputs : \E inp \in {ViewInputs[name]} : InputStep(name, inp)
    /\ ViewBounded(terminal')

ResizeView ==
    \E d \in ViewDims : \E inp \in {[NoInput EXCEPT !.resized = d]} : InputStep("resize", inp)

NextView ==
    \/ PtyOutputView
    \/ UserInputView
    \/ ResizeView

SpecView == InitView /\ [][NextView]_vars

(***************************************************************************)
(* The pen: SGR sequences and prints on Terminal::new(1, 2), with carriage *)
(* returns to bring the cursor back.  lastOp follows the sequence          *)
(* SGR 0, SGR 30+k: "SGR0" after `CSI 0 m`, SgrNames[k + 1] after a        *)
(* `CSI 30+k m` that directly follows it.                                  *)
(***************************************************************************)
SgrNames ==
    <<"SGR0;SGR30", "SGR0;SGR31", "SGR0;SGR32", "SGR0;SGR33",
      "SGR0;SGR34", "SGR0;SGR35", "SGR0;SGR36", "SGR0;SGR37">>

SgrPenLists == {<<0>>, <<7, 41>>} \cup {<<30 + k>> : k \in 0..7}

InitSgr ==
    /\ terminal = Terminal_new(1, 2)
    /\ win = RoseWindow_new(1, 2, TRUE)
    /\ lastOp = "new"
    /\ printed = <<>>
    /\ lastParams = <<>>
    /\ pty = Pty_spawn

SelectGraphicRendition ==
    /\ Running
    /\ \E params \in SgrPenLists :
          /\ terminal' = csi_dispatch(terminal, params, "m")
          /\ lastOp' = IF params = <<0>>
                       THEN "SGR0"
                       ELSE IF lastOp = "SGR0" /\ Len(params) = 1 /\ params[1] \in 30..37
                            THEN SgrNames[params[1] - 29]
                            ELSE "m"
    /\ win' = on_pty_data(win, terminal')
    /\ lastParams' = <<>>
    /\ UNCHANGED pty
    /\ UNCHANGED printed

PrintSgr ==
    /\ \E c \in Glyphs : PrintStep(c)
    /\ terminal'.history = <<>>

CarriageReturn == ExecuteStep(CR)

NextSgr ==
    \/ SelectGraphicRendition
    \/ PrintSgr
    \/ CarriageReturn

SpecSgr == InitSgr /\ [][NextSgr]_vars

(***************************************************************************)
(* Erasing: prints, C0 bytes, DECSTBM, SGR and ED on a one-column          *)
(* terminal.  lastOp is "ED2" after `CSI 2 J`, "J" after any other ED.     *)
(***************************************************************************)
EraseInDisplay ==
    /\ Running
    /\ \E params \in OneParam :
          /\ terminal' = csi_dispatch(terminal, params, "J")
          /\ lastOp' = IF first_or_zero(params) = 2 THEN "ED2" ELSE "J"
    /\ win' = on_pty_data(win, terminal')
    /\ lastParams' = <<>>
    /\ UNCHANGED pty
    /\ UNCHANGED printed

NextErase ==
    \/ PrintGlyph
    \/ Execute
    \/ SetMargins
    \/ SetPen
    \/ EraseInDisplay

SpecErase == InitPen /\ [][NextErase]_vars

(***************************************************************************)
(* Cursor motion and margins: prints and C0 bytes interleaved with the     *)
(* CSI finals A B C D G d H f r, each step keeping the parameters it was   *)
(* dispatched with.                                                        *)
(***************************************************************************)
MotionFinals == {"A", "B", "C", "D", "G", "d", "H", "f", "r"}

CsiMotion ==
    /\ Running
    /\ \E action \in MotionFinals : \E params \in CsiParams(action) :
          /\ terminal' = csi_dispatch(terminal, params, action)
          /\ lastOp' = action
          /\ lastParams' = params
          /\ UNCHANGED pty
    /\ win' = on_pty_data(win, terminal')
    /\ UNCHANGED printed

NextCsi ==
    \/ PrintGlyph
    \/ Execute
    \/ CsiMotion

SpecCsi == Init /\ [][NextCsi]_vars

(***************************************************************************)
(* The scrollback view over printed text: a fresh terminal that receives   *)
(* glyphs, line feeds and carriage returns while the user scrolls, types   *)
(* and resizes.                                                            *)
(***************************************************************************)
InitScroll ==
    /\ \E d \in ViewDims :
          /\ terminal = Terminal_new(d[1], d[2])
          /\ win = RoseWindow_new(d[1], d[2], TRUE)
    /\ lastOp = "new"
    /\ printed = <<>>
    /\ lastParams = <<>>
    /\ pty = Pty_spawn

PrintView ==
    /\ \E c \in Glyphs : PrintStep(c)
    /\ ViewBounded(terminal')

NextScroll ==
    \/ PrintView
    \/ PtyOutputView
    \/ UserInputView
    \/ ResizeView

SpecScroll == InitScroll /\ [][NextScroll]_vars

(***************************************************************************)
(* Selecting with the mouse.  The terminal starts in a state that output   *)
(* and resizes have left: any glyphs in the grid, at most SelHist rows of  *)
(* history, each as wide as the screen was when it was retired, the view   *)
(* scrolled back by any number of them, the cursor home.                   *)
(***************************************************************************)
SelHist == 1

SelDims == {<<1, 2>>, <<2, 2>>}

SelGlyphs == {"a", " "}

(* the rows print() can leave: width w, every cell with the default pen *)
PrintedRows(w) ==
    { [x \in 1..w |-> [Cell_default EXCEPT !.char = g[x]]] : g \in [1..w -> SelGlyphs] }

Histories ==
    UNION { [1..n -> UNION { PrintedRows(w) : w \in 1..MaxCols }] : n \in 0..SelHist }

MousePositions == {<<0, 0>>, <<0, 1>>, <<1, 0>>, <<1, 1>>}

MouseInputs(pos) ==
    [ MousePress   |-> [NoInput EXCEPT !.mouse = pos, !.mouse_pressed = {0}],
      MouseMove    |-> [NoInput EXCEPT !.mouse = pos],
      MouseRelease |-> [NoInput EXCEPT !.mouse = pos, !.mouse_released = {0}] ]

InitSelect ==
    /\ \E d \in SelDims : \E g \in [1..d[2] -> PrintedRows(d[1])] : \E h \in Histories :
       \E k \in 0..Len(h) :
          /\ terminal = [Terminal_new(d[1], d[2]) EXCEPT
                            !.grid = g, !.history = h, !.scroll_offset = k]
          /\ win = on_pty_data(RoseWindow_new(d[1], d[2], TRUE), terminal)
    /\ lastOp = "new"
    /\ printed = <<>>
    /\ lastParams = <<>>
    /\ pty = Pty_spawn

MouseEvent ==
    \E pos \in MousePositions : \E name \in {"MousePress", "MouseMove", "MouseRelease"} :
    \E inp \in {MouseInputs(pos)[name]} : InputStep(name, inp)

NextSelect == MouseEvent

SpecSelect == InitSelect /\ [][NextSelect]_vars

(***************************************************************************)
(* The selection highlight: presses, drags and releases of the left button *)
(* over a fresh two-by-two terminal.  The mouse position is not clamped to *)
(* the grid, so the pointer also reaches the strip below the last row.     *)
(***************************************************************************)
HighlightPositions == (0..1) \X (0..2)

InitHighlight ==
    /\ terminal = Terminal_new(2, 2)
    /\ win = RoseWindow_new(2, 2, TRUE)
    /\ lastOp = "new"
    /\ printed = <<>>
    /\ lastParams = <<>>
    /\ pty = Pty_spawn

MouseHighlight ==
    \E pos \in HighlightPositions : \E name \in {"MousePress", "MouseMove", "MouseRelease"} :
    \E inp \in {MouseInputs(pos)[name]} : InputStep(name, inp)

NextHighlight == MouseHighlight

SpecHighlight == InitHighlight /\ [][NextHighlight]_vars

(***************************************************************************)
(* Typing while scrolled back: line feeds from the PTY fill the            *)
(* scrollback, Shift+PageUp and Shift+PageDown move the view, and the user *)
(* presses keys that are forwarded to the child.                           *)
(***************************************************************************)
ForwardedKeys ==
    [ key_a        |-> [NoInput EXCEPT !.text = <<"a">>],
      Return       |-> [NoInput EXCEPT !.pressed = {"Return"}],
      Back         |-> [NoInput EXCEPT !.pressed = {"Back"}],
      Delete       |-> [NoInput EXCEPT !.pressed = {"Delete"}],
      Escape       |-> [NoInput EXCEPT !.pressed = {"Escape"}],
      Up           |-> [NoInput EXCEPT !.pressed = {"Up"}],
      Down         |-> [NoInput EXCEPT !.pressed = {"Down"}],
      Left         |-> [NoInput EXCEPT !.pressed = {"Left"}],
      Right        |-> [NoInput EXCEPT !.pressed = {"Right"}],
      PageUp       |-> [NoInput EXCEPT !.pressed = {"PageUp"}],
      PageDown     |-> [NoInput EXCEPT !.pressed = {"PageDown"}],
      Home         |-> [NoInput EXCEPT !.pressed = {"Home"}],
      End          |-> [NoInput EXCEPT !.pressed = {"End"}],
      CtrlC        |-> [NoInput EXCEPT !.held_control = TRUE, !.pressed = {"C"}],
      CtrlLBracket |-> [NoInput EXCEPT !.held_control = TRUE, !.pressed = {"LBracket"}] ]

ViewKeys ==
    [ ShiftPageUp   |-> [NoInput EXCEPT !.held_shift = TRUE, !.pressed = {"PageUp"}],
      ShiftPageDown |-> [NoInput EXCEPT !.held_shift = TRUE, !.pressed = {"PageDown"}] ]

KeyForwarded ==
    \E name \in DOMAIN ForwardedKeys : \E inp \in {ForwardedKeys[name]} : InputStep(name, inp)

ViewKey ==
    \E name \in DOMAIN ViewKeys : \E inp \in {ViewKeys[name]} : InputStep(name, inp)

NextKeys ==
    \/ PtyOutputView
    \/ KeyForwarded
    \/ ViewKey

SpecKeys == InitScroll /\ [][NextKeys]_vars

(***************************************************************************)
(* The life of a selection: the left button selects over a fresh           *)
(* two-by-two terminal, the right button and Ctrl+Shift+C copy, and keys   *)
(* are typed.                                                              *)
(***************************************************************************)
CopyInputs(pos) ==
    [ RightRelease |-> [NoInput EXCEPT !.mouse = pos, !.mouse_released = {1}],
      CtrlShiftC   |-> [NoInput EXCEPT !.held_control = TRUE, !.held_shift = TRUE,
                                       !.pressed = {"C"}],
      key_a        |-> [NoInput EXCEPT !.text = <<"a">>],
      Return       |-> [NoInput EXCEPT !.pressed = {"Return"}] ]

CopyOrKey ==
    \E pos \in MousePositions : \E name \in DOMAIN CopyInputs(pos) :
    \E inp \in {CopyInputs(pos)[name]} : InputStep(name, inp)

NextLifecycle ==
    \/ MouseEvent
    \/ CopyOrKey

SpecLifecycle == InitHighlight /\ [][NextLifecycle]_vars

(***************************************************************************)
(* Mouse events under both settings of mouse_reporting: the child turns    *)
(* reporting on and off with CSI ? 1000 h / l, and the user presses,       *)
(* releases, moves and turns the wheel, with and without Shift, over a     *)
(* one-column, two-row terminal with up to MouseHist retired rows.         *)
(***************************************************************************)
MouseHist == 4

MaxNotches == 2

MouseCells == {<<0, 0>>, <<1, 1>>}

MouseKinds == {"LeftPress", "LeftRelease", "RightPress", "RightRelease", "Move", "Wheel"}

(* the WinitInputHelper state of one step with the pointer over cell pos;  *)
(* notches is scroll_diff, the wheel lines accumulated during the step     *)
MouseInput(kind, pos, shift, notches) ==
    [NoInput EXCEPT
        !.mouse = pos,
        !.held_shift = shift,
        !.mouse_pressed = CASE kind = "LeftPress" -> {0}
                            [] kind = "RightPress" -> {1}
                            [] OTHER -> {},
        !.mouse_released = CASE kind = "LeftRelease" -> {0}
                             [] kind = "RightRelease" -> {1}
                             [] OTHER -> {},
        !.scroll_diff = IF kind = "Wheel" THEN notches ELSE 0]

InitMouse ==
    /\ terminal \in {Terminal_new(1, 2)} \cup {Terminal_scrolled(2, n) : n \in 1..MouseHist}
    /\ win = RoseWindow_new(1, 2, TRUE)
    /\ lastOp = "new"
    /\ printed = <<>>
    /\ lastParams = <<>>
    /\ pty = Pty_spawn

SetMouseMode == \E action \in {"h", "l"} : CsiStep(action, <<1000>>)

MouseStep ==
    /\ Running
    /\ \E kind \in MouseKinds : \E pos \in MouseCells : \E shift \in BOOLEAN :
       \E notches \in IF kind = "Wheel" THEN (-MaxNotches..MaxNotches) \ {0} ELSE {0} :
       \E st \in {on_input([t |-> terminal, w |-> win], MouseInput(kind, pos, shift, notches))} :
          /\ terminal' = st.t
          /\ win' = st.w
          /\ lastOp' = kind
          /\ lastParams' = <<pos[1], pos[2], IF shift THEN 1 ELSE 0, notches>>
          /\ UNCHANGED pty
    /\ UNCHANGED printed

NextMouse ==
    \/ SetMouseMode
    \/ MouseStep

SpecMouse == InitMouse /\ [][NextMouse]_vars

(***************************************************************************)
(* The reader thread beside the coordinator: the thread reads batches of   *)
(* at most MaxBatch bytes, MaxRead bytes in all, and sends them to the     *)
(* event loop, or leaves on end of file or a read error; the coordinator   *)
(* handles the PtyOutput events, keys typed and the close request.         *)
(***************************************************************************)
MaxRead == 3

MaxBatch == 2

PtyBytes == {"a", "\n"}

InitPty ==
    /\ terminal = Terminal_new(1, 2)
    /\ win = RoseWindow_new(1, 2, TRUE)
    /\ pty = Pty_spawn
    /\ lastOp = "new"
    /\ printed = <<>>
    /\ lastParams = <<>>

(* one turn of the reader's loop in which read returns n > 0 bytes *)
ReaderRead ==
    /\ ~pty.exit
    /\ pty.reader = "reading"
    /\ \E n \in 1..MaxBatch : \E data \in [1..n -> PtyBytes] :
          /\ Len(pty.read) + n <= MaxRead
          /\ pty' = send_event([pty EXCEPT !.read = @ \o data], data)
    /\ UNCHANGED <<terminal, lastOp, printed, lastParams, win>>

(* read returns Ok(0) or Err *)
ReaderBreak ==
    /\ ~pty.exit
    /\ pty.reader = "reading"
    /\ pty' = reader_break(pty)
    /\ UNCHANGED <<terminal, lastOp, printed, lastParams, win>>

(* Event::UserEvent(RoseEvent::PtyOutput(data)) *)
PtyOutput ==
    /\ Running
    /\ ~pty.exit
    /\ pty.queue # <<>>
    /\ terminal' = advance_all(terminal, Head(pty.queue))
    /\ win' = on_pty_data(win, terminal')
    /\ pty' = [pty EXCEPT !.queue = Tail(@), !.fed = @ \o Head(pty.queue)]
    /\ lastOp' = "PtyOutput"
    /\ lastParams' = <<>>
    /\ UNCHANGED printed

KeyTyped ==
    /\ ~pty.exit
    /\ \E inp \in {[NoInput EXCEPT !.text = <<"a">>]} : InputStep("key_a", inp)

(* input.close_requested() *)
CloseRequested ==
    /\ Running
    /\ ~pty.exit
    /\ pty' = [pty EXCEPT !.exit = TRUE]
    /\ lastOp' = "CloseRequested"
    /\ lastParams' = <<>>
    /\ UNCHANGED <<terminal, printed, win>>

NextPty ==
    \/ ReaderRead
    \/ ReaderBreak
    \/ PtyOutput
    \/ KeyTyped
    \/ CloseRequested

SpecPty == InitPty /\ [][NextPty]_vars

(***************************************************************************)
(* Resizes between printing, control bytes, DECSTBM and view scrolling     *)
(* with Shift+Up / Shift+Down.                                             *)
(***************************************************************************)
ScrollView ==
    \E name \in {"ShiftUp", "ShiftDown"} : \E inp \in {ViewInputs[name]} : InputStep(name, inp)

NextResize ==
    \/ PrintGlyph
    \/ Execute
    \/ SetMargins
    \/ ScrollView
    \/ Resize

SpecResize == Init /\ [][NextResize]_vars

(***************************************************************************)
(* Mode sequences: CSI Pm h and CSI Pm l arrive with or without the        *)
(* private marker `?` (which the parser hands over in the intermediates),  *)
(* among the other callbacks of Spec.                                      *)
(***************************************************************************)
ModeParams == {<<1000>>, <<1015>>, <<25>>, <<25, 1002>>}

(* `fn csi_dispatch(&mut self, params, _intermediates, _ignore, action)` *)
csi_dispatch_intermediates(t, params, intermediates, action) == csi_dispatch(t, params, action)

ModeStep ==
    /\ Running
    /\ \E action \in {"h", "l"} : \E intermediates \in {<<>>, <<"?">>} :
       \E params \in ModeParams :
          /\ terminal' = csi_dispatch_intermediates(terminal, params, intermediates, action)
          /\ lastOp' = IF intermediates = <<"?">> THEN "CSI ? " \o action ELSE "CSI " \o action
          /\ lastParams' = params
          /\ UNCHANGED pty
    /\ win' = on_pty_data(win, terminal')
    /\ UNCHANGED printed

NextModes ==
    \/ ModeStep
    \/ PrintGlyph
    \/ Execute
    \/ CsiDispatch
    \/ OscDispatch

SpecModes == InitHighlight /\ [][NextModes]_vars

(***************************************************************************)
(* OSC sequences among printing and control bytes.  A sequence is written  *)
(* as the fields its body has between the `;` separators, which is how the *)
(* parser hands it to osc_dispatch: <<"0", "a", "b">> is OSC 0;a;b.        *)
(***************************************************************************)
OscSequences ==
    {<<"0", "a">>, <<"2", "b">>, <<"0", "a", "b">>, <<"0", "">>, <<"1", "x">>, <<"0">>, <<>>}

OscTitle ==
    /\ Running
    /\ \E params \in OscSequences :
          /\ terminal' = osc_dispatch(terminal, params)
          /\ lastParams' = params
          /\ UNCHANGED pty
    /\ win' = on_pty_data(win, terminal')
    /\ lastOp' = "OSC"
    /\ UNCHANGED printed

NextOsc ==
    \/ OscTitle
    \/ PrintGlyph
    \/ Execute

SpecOsc == InitHighlight /\ [][NextOsc]_vars

(***************************************************************************)
(* Line insertion and deletion among printing, control bytes, cursor       *)
(* motion and DECSTBM.                                                     *)
(***************************************************************************)
LineEdit ==
    /\ Running
    /\ \E action \in {"L", "M"} : \E params \in OneParam :
          /\ terminal' = csi_dispatch(terminal, params, action)
          /\ lastOp' = action
          /\ lastParams' = params
          /\ UNCHANGED pty
    /\ win' = on_pty_data(win, terminal')
    /\ UNCHANGED printed

NextLines ==
    \/ PrintGlyph
    \/ Execute
    \/ CsiMotion
    \/ LineEdit

SpecLines == Init /\ [][NextLines]_vars

(***************************************************************************)
(* Drawing the scrolled view: printing, line feeds, Shift+Up / Shift+Down  *)
(* and the redraws the event loop delivers between them.                   *)
(***************************************************************************)
(* Event::RedrawRequested: app.draw() *)
RedrawRequested ==
    /\ Running
    /\ win' = [win EXCEPT !.frame = draw(terminal)]
    /\ lastOp' = "RedrawRequested"
    /\ lastParams' = <<>>
    /\ UNCHANGED <<terminal, printed, pty>>

NextDraw ==
    \/ PrintView
    \/ PtyOutputView
    \/ ScrollView
    \/ RedrawRequested

SpecDraw == InitScroll /\ [][NextDraw]_vars

(***************************************************************************)
(* Properties                                                              *)
(***************************************************************************)
GridShape(t) ==
    /\ Len(t.grid) = t.rows
    /\ \A y \in 1..Len(t.grid) : Len(t.grid[y]) = t.cols

(* C1: the grid always has exactly `rows` rows and every grid row has      *)
(* exactly `cols` cells, after any print, execute, csi_dispatch,           *)
(* osc_dispatch and resize.                                                *)
C1_GridShape == GridShape(terminal)

(* IL has just run with the cursor inside a non-default scroll region of a  *)
(* three-row terminal                                                      *)
C1_Witness ==
    /\ lastOp = "L"
    /\ terminal.rows = 3
    /\ terminal.scroll_top = 1
    /\ terminal.cursor_y = 1

(* C2: 0 <= cursor_x <= cols and 0 <= cursor_y < rows in every state, and  *)
(* a step ends with cursor_x = cols only if it is a print, or if the       *)
(* cursor already was at that deferred-wrap position before the step.      *)
C2_CursorBounds ==
    /\ [](/\ 0 <= terminal.cursor_x
          /\ terminal.cursor_x <= terminal.cols
          /\ 0 <= terminal.cursor_y
          /\ terminal.cursor_y < terminal.rows)
    /\ [][terminal'.cursor_x = terminal'.cols =>
             \/ lastOp' = "print"
             \/ (terminal.cursor_x = terminal.cols /\ terminal'.cols = terminal.cols)]_vars

(* a print has just left the cursor at the deferred-wrap position *)
C2_Witness == lastOp = "print" /\ terminal.cursor_x = terminal.cols

(* C3 as claimed: 0 <= scroll_top < scroll_bottom < rows in every state.   *)
C3_Claimed ==
    /\ 0 <= terminal.scroll_top
    /\ terminal.scroll_top < terminal.scroll_bottom
    /\ terminal.scroll_bottom < terminal.rows

(* C3 amended: 0 <= scroll_top <= scroll_bottom < rows in every state, and *)
(* scroll_top < scroll_bottom whenever the terminal has two rows or more.  *)
C3_Margins ==
    /\ 0 <= terminal.scroll_top
    /\ terminal.scroll_top <= terminal.scroll_bottom
    /\ terminal.scroll_bottom < terminal.rows
    /\ terminal.rows >= 2 => terminal.scroll_top < terminal.scroll_bottom

(* DECSTBM has just set a region that is not the whole screen *)
C3_Witness ==
    /\ lastOp = "r"
    /\ terminal.scroll_top = 1
    /\ terminal.scroll_bottom = 2

(* C4: history.length never exceeds 10,000, however many rows are retired. *)
C4_HistoryBound == Len(terminal.history) <= HISTORY_LIMIT

(* C5: 0 <= scroll_offset <= history.length in every state reached by any *)
(* interleaving of view scrolling, PTY output that grows or evicts        *)
(* history, keystrokes and resizes; a step that calls scroll_up(n) leaves *)
(* min(offset + n, history.length) and one that calls scroll_down(n)      *)
(* leaves max(0, offset - n) (n = 1 for Shift+Up/Down, 10 for             *)
(* Shift+PageUp/PageDown, 3 for the wheel).                               *)
C5_ScrollOffset ==
    /\ 0 <= terminal.scroll_offset /\ terminal.scroll_offset <= Len(terminal.history)
    /\ [][LET offset == terminal.scroll_offset
              length == Len(terminal.history)
          IN  /\ 0 <= terminal'.scroll_offset
              /\ terminal'.scroll_offset <= Len(terminal'.history)
              /\ lastOp' = "ShiftUp" => terminal'.scroll_offset = Min(offset + 1, length)
              /\ lastOp' = "WheelUp" => terminal'.scroll_offset = Min(offset + 3, length)
              /\ lastOp' = "ShiftPageUp" => terminal'.scroll_offset = Min(offset + 10, length)
              /\ lastOp' = "ShiftDown" => terminal'.scroll_offset = Max(0, offset - 1)
              /\ lastOp' = "WheelDown" => terminal'.scroll_offset = Max(0, offset - 3)
              /\ lastOp' = "ShiftPageDown" => terminal'.scroll_offset = Max(0, offset - 10)]_vars

(* Shift+PageUp has just been stopped at the oldest row of a scrollback   *)
(* shorter than the ten rows it asks for                                   *)
C5_Witness ==
    /\ lastOp = "ShiftPageUp"
    /\ terminal.scroll_offset = Len(terminal.history)
    /\ Len(terminal.history) > 0
    /\ Len(terminal.history) < 10

(* C11: a print writes, at the cursor (after the wrap when the cursor was  *)
(* at the deferred-wrap position), the cell (g, current_fg, current_bg,    *)
(* current_inverse); printed right after SGR 0, SGR 30+k the cell has the  *)
(* k-th standard colour as fg, DefaultBg and inverse = FALSE, whatever the *)
(* pen was before; printed right after SGR 0 it is (g, DefaultFg,          *)
(* DefaultBg, FALSE).                                                      *)
C11_PenLaw ==
    [][lastOp' = "print" =>
          LET t == terminal
              u == terminal'
              cell == u.grid[u.cursor_y + 1][u.cursor_x]
          IN  /\ u.cursor_x >= 1
              /\ t.cursor_x < t.cols => u.cursor_x = t.cursor_x + 1 /\ u.cursor_y = t.cursor_y
              /\ t.cursor_x >= t.cols => u.cursor_x = 1
              /\ cell = [char |-> "a", fg |-> t.current_fg, bg |-> t.current_bg,
                         inverse |-> t.current_inverse]
              /\ \A k \in 0..7 :
                    lastOp = SgrNames[k + 1] =>
                       cell = [char |-> "a", fg |-> StandardColors[k + 1],
                               bg |-> "DefaultBg", inverse |-> FALSE]
              /\ lastOp = "SGR0" =>
                    cell = [char |-> "a", fg |-> "DefaultFg", bg |-> "DefaultBg",
                            inverse |-> FALSE]]_vars

(* 'a' has just been printed in red on the second row, after SGR 0 and     *)
(* SGR 31 replaced the pen (inverse, red background) that wrote the first  *)
C11_Witness ==
    /\ lastOp = "print"
    /\ terminal.grid[1][1] = [char |-> "a", fg |-> "DefaultFg", bg |-> "Red", inverse |-> TRUE]
    /\ terminal.cursor_y = 1
    /\ terminal.grid[2][1] = [char |-> "a", fg |-> "Red", bg |-> "DefaultBg", inverse |-> FALSE]
    /\ terminal.current_fg = "Red"

(* C12: `CSI 2 J` leaves every grid cell equal to the default Cell and the *)
(* cursor at (0,0), and leaves the grid's shape, history, the margins and  *)
(* the pen unchanged, whatever the pen, margins and cursor were.           *)
C12_EraseDisplay ==
    [][lastOp' = "ED2" =>
          LET t == terminal
              u == terminal'
          IN  /\ Len(u.grid) = t.rows
              /\ \A y \in 1..Len(u.grid) :
                    /\ Len(u.grid[y]) = t.cols
                    /\ \A x \in 1..Len(u.grid[y]) : u.grid[y][x] = Cell_default
              /\ u.cursor_x = 0 /\ u.cursor_y = 0
              /\ u.history = t.history
              /\ u.scroll_top = t.scroll_top /\ u.scroll_bottom = t.scroll_bottom
              /\ u.current_fg = t.current_fg /\ u.current_bg = t.current_bg
              /\ u.current_inverse = t.current_inverse]_vars

(* `CSI 2 J` has just been taken with the inverse pen, the region 1..2 and *)
(* a row in history                                                        *)
C12_Witness ==
    /\ lastOp = "ED2"
    /\ terminal.current_inverse
    /\ terminal.scroll_top = 1
    /\ terminal.scroll_bottom = 2
    /\ Len(terminal.history) = 1
    /\ terminal.history[1][1].char = "a"

(* the parameter i of a CSI sequence as the claims read it: missing or 0  *)
(* stands for `missing`                                                    *)
Param(params, i, missing) ==
    IF i < Len(params) /\ params[i + 1] # 0 THEN params[i + 1] ELSE missing

(* C13: `CSI Pt ; Pb r` (Pt missing or 0 read as 1, Pb missing as rows,    *)
(* Pb = 0 as 1) sets the margins to (Pt-1, Pb-1) when                      *)
(* Pt-1 < Pb-1 <= rows-1, and to the default (0, rows-1) for every other   *)
(* pair; the cursor becomes (0,0).                                         *)
C13_Decstbm ==
    [][lastOp' = "r" =>
          LET t == terminal
              u == terminal'
              Pt == Param(lastParams', 0, 1)
              Pb == IF Len(lastParams') > 1 THEN Param(lastParams', 1, 1) ELSE t.rows
              valid == Pt - 1 < Pb - 1 /\ Pb - 1 <= t.rows - 1
          IN  /\ u.scroll_top = IF valid THEN Pt - 1 ELSE 0
              /\ u.scroll_bottom = IF valid THEN Pb - 1 ELSE t.rows - 1
              /\ u.cursor_x = 0 /\ u.cursor_y = 0]_vars

(* C14: with Pn the parameter (missing or 0 read as 1), CUU sets y to      *)
(* max(0, y-Pn), CUD to min(rows-1, y+Pn), CUF sets x to min(cols-1, x+Pn), *)
(* CUB to max(0, x-Pn), CHA sets x to min(cols-1, Pn-1), VPA sets y to      *)
(* min(rows-1, Pn-1), CUP (H and f) sets (x, y) to                          *)
(* (min(cols-1, Pc-1), min(rows-1, Pr-1)); each leaves the other            *)
(* coordinate, the grid, history and the margins unchanged.                 *)
C14_CursorMotion ==
    [][lastOp' \in {"A", "B", "C", "D", "G", "d", "H", "f"} =>
          LET t == terminal
              u == terminal'
              Pn == Param(lastParams', 0, 1)
              Pc == Param(lastParams', 1, 1)
              x == t.cursor_x
              y == t.cursor_y
          IN  /\ u.grid = t.grid
              /\ u.history = t.history
              /\ u.scroll_top = t.scroll_top /\ u.scroll_bottom = t.scroll_bottom
              /\ u.cols = t.cols /\ u.rows = t.rows
              /\ lastOp' = "A" => u.cursor_y = Max(0, y - Pn) /\ u.cursor_x = x
              /\ lastOp' = "B" => u.cursor_y = Min(t.rows - 1, y + Pn) /\ u.cursor_x = x
              /\ lastOp' = "C" => u.cursor_x = Min(t.cols - 1, x + Pn) /\ u.cursor_y = y
              /\ lastOp' = "D" => u.cursor_x = Max(0, x - Pn) /\ u.cursor_y = y
              /\ lastOp' = "G" => u.cursor_x = Min(t.cols - 1, Pn - 1) /\ u.cursor_y = y
              /\ lastOp' = "d" => u.cursor_y = Min(t.rows - 1, Pn - 1) /\ u.cursor_x = x
              /\ lastOp' \in {"H", "f"} =>
                    /\ u.cursor_x = Min(t.cols - 1, Pc - 1)
                    /\ u.cursor_y = Min(t.rows - 1, Pn - 1)]_vars

(* `CSI 65535 ; 2 H` has just put the cursor in the last row, second       *)
(* column, of a grid that holds a printed glyph                            *)
C14_Witness ==
    /\ lastOp = "H"
    /\ lastParams = <<65535, 2>>
    /\ terminal.cols = 2
    /\ terminal.cursor_x = 1
    /\ terminal.cursor_y = terminal.rows - 1
    /\ terminal.rows = 2
    /\ terminal.grid[1][2].char = "a"

(* C15: for every screen_y in 0 .. rows-1, with k = scroll_offset,         *)
(* get_visible_row(screen_y) indexes nothing out of bounds and returns     *)
(* element history.length - k + screen_y of history ++ grid:               *)
(* history[history.length - k + screen_y] when screen_y < k and            *)
(* grid[screen_y - k] otherwise.                                           *)
C15_VisibleRow ==
    \A screen_y \in 0..(terminal.rows - 1) :
        LET k == terminal.scroll_offset
            length == Len(terminal.history)
            v == get_visible_row(terminal, screen_y, win.overflow_checks)
        IN  /\ ~v.panic
            /\ v.row = (terminal.history \o terminal.grid)[length - k + screen_y + 1]
            /\ v.row = IF screen_y < k
                       THEN terminal.history[length - k + screen_y + 1]
                       ELSE terminal.grid[screen_y - k + 1]

(* the view is scrolled back by one row over a two-row screen: the top     *)
(* screen row shows the newest history row, which holds 'a', and the       *)
(* bottom one shows grid row 0, which is blank                             *)
C15_Witness ==
    /\ terminal.rows = 2
    /\ terminal.scroll_offset = 1
    /\ Len(terminal.history) = 2
    /\ terminal.history[2][1].char = "a"
    /\ terminal.grid[1][1].char = " "
    /\ get_visible_row(terminal, 0, win.overflow_checks).row = terminal.history[2]
    /\ get_visible_row(terminal, 1, win.overflow_checks).row = terminal.grid[1]

(* row y of the screen as the user sees it: row history.length - k + y of *)
(* history ++ grid                                                         *)
VisibleRow(t, y) == (t.history \o t.grid)[Len(t.history) - t.scroll_offset + y + 1]

(* the first n glyphs of visible rows y .. r, one "\n" between rows *)
RECURSIVE RowsText(_, _, _)
RowsText(t, y, r) ==
    LET row == VisibleRow(t, y)
        glyphs == [x \in 1..Min(t.cols, Len(row)) |-> row[x].char]
    IN  IF y = r THEN glyphs ELSE glyphs \o <<"\n">> \o RowsText(t, y + 1, r)

(* the selection is (0,0) .. (cols-1, r), in either order, for an r < rows *)
FullRowsSelected(t, r) ==
    /\ r \in 0..(t.rows - 1)
    /\ \/ t.selection_start = <<0, 0>> /\ t.selection_end = <<t.cols - 1, r>>
       \/ t.selection_end = <<0, 0>> /\ t.selection_start = <<t.cols - 1, r>>

(* C16 as claimed: with anchor (0,0) and head (cols-1, r), in either      *)
(* order, get_selected_text returns the glyphs of visible rows 0..=r, each *)
(* row contributing cols glyphs, one "\n" between rows and none at the     *)
(* end; with no selection it returns the empty string.                     *)
C16_Claimed ==
    LET sel == get_selected_text(terminal, win.overflow_checks)
    IN  /\ ~sel.panic
        /\ terminal.selection_start = <<>> => sel.text = <<>>
        /\ \A r \in 0..(terminal.rows - 1) :
              FullRowsSelected(terminal, r) =>
                 /\ sel.text = RowsText(terminal, 0, r)
                 /\ Len(sel.text) = (r + 1) * terminal.cols + r

(* C16 amended: each visible row contributes its glyphs in the columns    *)
(* 0 .. cols-1 that it has: a history row keeps the width the screen had  *)
(* when it was retired, so it contributes min(cols, its width) glyphs.    *)
C16_SelectedText ==
    LET sel == get_selected_text(terminal, win.overflow_checks)
    IN  /\ ~sel.panic
        /\ terminal.selection_start = <<>> => sel.text = <<>>
        /\ \A r \in 0..(terminal.rows - 1) :
              FullRowsSelected(terminal, r) =>
                 /\ sel.text = RowsText(terminal, 0, r)
                 /\ (\A y \in 0..r : Len(VisibleRow(terminal, y)) = terminal.cols)
                       => Len(sel.text) = (r + 1) * terminal.cols + r

(* the whole of a two-column, two-row screen has just been selected by a   *)
(* drag from the bottom right to the top left; the first row ends in a     *)
(* space and the text is "a \n a"                                          *)
C16_Witness ==
    /\ lastOp = "MouseMove"
    /\ terminal.selection_start = <<1, 1>>
    /\ terminal.selection_end = <<0, 0>>
    /\ terminal.scroll_offset = 0
    /\ get_selected_text(terminal, win.overflow_checks).text = <<"a", " ", "\n", " ", "a">>

(* the cells the highlight is asked about *)
QueriedCells == (0..MaxCols) \X (0..MaxRows)

(* C17: with (p1, p2) the anchor and head ordered by row then column,     *)
(* is_selected(col, row) is true iff row is strictly between p1.row and    *)
(* p2.row, or row = p1.row = p2.row and p1.col <= col <= p2.col, or        *)
(* row = p1.row < p2.row and col >= p1.col, or row = p2.row > p1.row and   *)
(* col <= p2.col; swapping anchor and head gives the same result; with no  *)
(* selection (as after clear_selection) it is false for every cell.        *)
C17_IsSelected ==
    \A q \in QueriedCells :
        LET col == q[1]
            row == q[2]
            a == terminal.selection_start
            h == terminal.selection_end
        IN  IF a = <<>> \/ h = <<>>
            THEN ~is_selected(terminal, col, row)
            ELSE LET first == a[2] < h[2] \/ (a[2] = h[2] /\ a[1] <= h[1])
                     p1 == IF first THEN a ELSE h
                     p2 == IF first THEN h ELSE a
                     swapped == [terminal EXCEPT !.selection_start = h, !.selection_end = a]
                 IN  /\ is_selected(terminal, col, row) <=>
                           \/ p1[2] < row /\ row < p2[2]
                           \/ row = p1[2] /\ row = p2[2] /\ p1[1] <= col /\ col <= p2[1]
                           \/ row = p1[2] /\ p1[2] < p2[2] /\ col >= p1[1]
                           \/ row = p2[2] /\ p2[2] > p1[2] /\ col <= p2[1]
                     /\ is_selected(swapped, col, row) <=> is_selected(terminal, col, row)

(* a drag from (1,2) up to (1,0) is in progress: the head is before the    *)
(* anchor, row 1 lies strictly between them and is highlighted whole, row  *)
(* 0 from column 1 on and row 2 up to column 1                             *)
C17_Witness ==
    /\ lastOp = "MouseMove"
    /\ terminal.selection_start = <<1, 2>>
    /\ terminal.selection_end = <<1, 0>>
    /\ is_selected(terminal, 0, 1) /\ is_selected(terminal, 2, 1)
    /\ ~is_selected(terminal, 0, 0) /\ is_selected(terminal, 1, 0)
    /\ is_selected(terminal, 1, 2) /\ ~is_selected(terminal, 2, 2)

(* C18: whenever a keystroke's bytes are forwarded to the child (a        *)
(* printable character, Return, Backspace, Delete, Escape, the arrows,     *)
(* PageUp/PageDown, Home/End, the Ctrl codes), scroll_offset is 0 right    *)
(* afterwards.                                                             *)
C18_KeystrokeResets ==
    [][lastOp' \in DOMAIN ForwardedKeys /\ win'.written # <<>> =>
          terminal'.scroll_offset = 0]_vars

NoSelection(t) == t.selection_start = <<>> /\ t.selection_end = <<>>

(* C19: a selection is destroyed (anchor and head become none) by a left  *)
(* release with anchor = head, by a copy of it to the clipboard            *)
(* (Ctrl+Shift+C or the right button), and by any keystroke whose bytes    *)
(* are sent to the child.                                                  *)
C19_SelectionLifecycle ==
    [][~NoSelection(terminal) =>
          /\ lastOp' = "MouseRelease" =>
                \/ NoSelection(terminal')
                \/ terminal'.selection_start # terminal'.selection_end
          /\ lastOp' \in {"CtrlShiftC", "RightRelease"}
                /\ win'.clipboard = <<get_selected_text(terminal, win.overflow_checks).text>>
                => NoSelection(terminal')
          /\ lastOp' \in {"key_a", "Return"} /\ win'.written # <<>> =>
                NoSelection(terminal')]_vars

Abs(n) == IF n < 0 THEN -n ELSE n

(* the SGR mouse report ESC [ < b ; col+1 ; row+1 M|m *)
MouseReport(b, col, row, final) ==
    <<"ESC", "[", "<">> \o b \o <<";">> \o decimal(col + 1) \o <<";">> \o decimal(row + 1)
        \o <<final>>

(* C20: a mouse event is reported to the PTY only when mouse_reporting is  *)
(* true and Shift is not held; the report is ESC [ < b ; col+1 ; row+1     *)
(* with M for press and m for release, b = 0 left, 2 right press, 64 wheel *)
(* up, 65 wheel down, and the event changes neither the selection nor      *)
(* scroll_offset.  Otherwise no bytes are written, the wheel moves         *)
(* scroll_offset by 3 rows per notch, clamped to 0..len(history), and the  *)
(* buttons drive the selection.                                            *)
C20_MouseGate ==
    [][lastOp' \in MouseKinds =>
         LET col     == lastParams'[1]
             row     == lastParams'[2]
             shift   == lastParams'[3] = 1
             notches == lastParams'[4]
             kind    == lastOp'
         IN  IF terminal.mouse_reporting /\ ~shift
             THEN /\ win'.written =
                        CASE kind = "LeftPress"   -> MouseReport(<<"0">>, col, row, "M")
                          [] kind = "LeftRelease" -> MouseReport(<<"0">>, col, row, "m")
                          [] kind = "RightPress"  -> MouseReport(<<"2">>, col, row, "M")
                          [] kind = "Wheel" /\ notches > 0 ->
                                MouseReport(<<"6", "4">>, col, row, "M")
                          [] kind = "Wheel" /\ notches < 0 ->
                                MouseReport(<<"6", "5">>, col, row, "M")
                          [] OTHER -> <<>>
                  /\ terminal'.selection_start = terminal.selection_start
                  /\ terminal'.selection_end = terminal.selection_end
                  /\ terminal'.scroll_offset = terminal.scroll_offset
             ELSE /\ win'.written = <<>>
                  /\ kind = "Wheel" =>
                        terminal'.scroll_offset =
                           IF notches > 0
                           THEN Min(terminal.scroll_offset + 3 * Abs(notches),
                                    Len(terminal.history))
                           ELSE Max(terminal.scroll_offset - 3 * Abs(notches), 0)
                  /\ kind = "LeftPress" =>
                        /\ terminal'.selection_start = <<col, row>>
                        /\ terminal'.selection_end = <<col, row>>
                  /\ kind = "Move" /\ win.is_selecting /\ ~NoSelection(terminal) =>
                        terminal'.selection_end = <<col, row>>]_vars

RECURSIVE Concat(_)
Concat(batches) == IF batches = <<>> THEN <<>> ELSE Head(batches) \o Concat(Tail(batches))

IsPrefix(a, b) == Len(a) <= Len(b) /\ SubSeq(b, 1, Len(a)) = a

(* C21: the bytes fed to parser.advance are always a prefix, in order, of  *)
(* the bytes the reader thread read; while the coordinator runs, the bytes *)
(* fed followed by the batches still queued are exactly the bytes read,    *)
(* so nothing is reordered, duplicated or dropped.                         *)
C21_PtyOrdering ==
    /\ IsPrefix(pty.fed, pty.read)
    /\ pty.fed \o Concat(pty.queue) = pty.read

C21_Witness ==
    /\ pty.fed = <<"a", "\n">>
    /\ pty.queue = <<<<"a">>>>
    /\ lastOp = "key_a"

(* C22: the reader leaving its loop (end of file or read error) posts no   *)
(* event and does not end the event loop; the coordinator still handles    *)
(* input afterwards, and the loop ends only on a close request.            *)
C22_ReaderEofNonFatal ==
    /\ [](pty.reader = "exited" /\ ~pty.exit /\ Running => ENABLED KeyTyped)
    /\ [][/\ pty.reader = "reading" /\ pty'.reader = "exited" =>
                pty'.queue = pty.queue /\ pty'.exit = pty.exit
          /\ pty'.exit # pty.exit => lastOp' = "CloseRequested"]_vars

C22_Witness ==
    /\ pty.reader = "exited"
    /\ ~pty.exit
    /\ lastOp = "key_a"
    /\ win.written = <<"a">>

(* C23: after resize(new_cols, new_rows) with new_cols, new_rows >= 1,     *)
(* from any state, the margins are (0, new_rows - 1), scroll_offset is 0,  *)
(* the cursor is inside the new grid and history is what it was; a second  *)
(* resize right after the first leaves the same.                           *)
C23_Resize ==
    [][lastOp' = "resize" =>
          /\ terminal'.cols >= 1 /\ terminal'.rows >= 1
          /\ terminal'.scroll_top = 0
          /\ terminal'.scroll_bottom = terminal'.rows - 1
          /\ terminal'.scroll_offset = 0
          /\ terminal'.cursor_x < terminal'.cols
          /\ terminal'.cursor_y < terminal'.rows
          /\ terminal'.history = terminal.history
          /\ Len(terminal'.grid) = terminal'.rows
          /\ \A y \in 1..terminal'.rows : Len(terminal'.grid[y]) = terminal'.cols]_vars

(* a resize has run on a terminal holding a retired row *)
C23_Witness ==
    /\ lastOp = "resize"
    /\ terminal.history # <<>>
    /\ terminal.cols = 1
    /\ terminal.rows = 2

HasMouseMode(params) == \E i \in 1..Len(params) : params[i] \in {1000, 1002, 1006, 1015}

(* C24: mouse_reporting becomes true exactly on CSI ? Pm h and false       *)
(* exactly on CSI ? Pm l with Pm in {1000, 1002, 1006, 1015}; every other  *)
(* sequence leaves it unchanged, among them h and l without the private    *)
(* marker `?` and h and l with another mode such as 25.                    *)
C24_MouseMode ==
    [][/\ lastOp' = "CSI ? h" /\ HasMouseMode(lastParams') => terminal'.mouse_reporting
       /\ lastOp' = "CSI ? l" /\ HasMouseMode(lastParams') => ~terminal'.mouse_reporting
       /\ ~(lastOp' \in {"CSI ? h", "CSI ? l"} /\ HasMouseMode(lastParams')) =>
             terminal'.mouse_reporting = terminal.mouse_reporting]_vars

(* the text of an OSC from field i on, with the separators put back *)
RECURSIVE TextFrom(_, _)
TextFrom(fields, i) ==
    IF i > Len(fields) THEN ""
    ELSE IF i = Len(fields) THEN fields[i]
    ELSE fields[i] \o ";" \o TextFrom(fields, i + 1)

(* C25: an OSC with command 0 or 2 sets title to the whole text after the  *)
(* first `;`; an OSC with another command, or with no text part, leaves    *)
(* title unchanged; no OSC changes anything but the title.                 *)
C25_Title ==
    [][lastOp' = "OSC" =>
          /\ IF Len(lastParams') >= 2 /\ lastParams'[1] \in {"0", "2"}
             THEN terminal'.title = TextFrom(lastParams', 2)
             ELSE terminal'.title = terminal.title
          /\ [terminal' EXCEPT !.title = terminal.title] = terminal]_vars

(* C26: IL and DL with the cursor inside [scroll_top, scroll_bottom]       *)
(* change only rows cursor_y..scroll_bottom: IL shifts them down by        *)
(* n = min(Pn, scroll_bottom - cursor_y + 1) and puts n blank rows at the  *)
(* cursor, DL shifts them up and puts n blank rows at scroll_bottom; rows  *)
(* above the cursor and below scroll_bottom, the cursor and history stay.  *)
(* With the cursor outside the region nothing changes.  (Rows are counted  *)
(* from 0 as in the source; grid[y + 1] is row y.)                         *)
C26_LinesInRegion ==
    [][lastOp' \in {"L", "M"} =>
          LET t == terminal
              u == terminal'
              cy == t.cursor_y
              bottom == t.scroll_bottom
              n == Min(Param(lastParams', 0, 1), bottom - cy + 1)
              blank_row == [x \in 1..t.cols |-> blank_cell(t)]
          IN  IF cy >= t.scroll_top /\ cy <= bottom
              THEN /\ [u EXCEPT !.grid = t.grid] = t
                   /\ Len(u.grid) = Len(t.grid)
                   /\ \A y \in 0..(t.rows - 1) :
                         u.grid[y + 1] =
                            IF y < cy \/ y > bottom THEN t.grid[y + 1]
                            ELSE IF lastOp' = "L"
                                 THEN IF y < cy + n THEN blank_row ELSE t.grid[y + 1 - n]
                                 ELSE IF y > bottom - n THEN blank_row ELSE t.grid[y + 1 + n]
              ELSE u = t]_vars

(* a line was deleted inside a region that ends above the last row *)
C26_Witness ==
    /\ lastOp = "M"
    /\ terminal.rows = 3
    /\ terminal.scroll_bottom = 1
    /\ terminal.cursor_y = 0
    /\ terminal.grid[3][1].char = "a"
    /\ terminal.grid[1][1].char = "a"

(* the last n elements of a sequence *)
LastRows(rows, n) == IF Len(rows) <= n THEN rows ELSE SubSeq(rows, Len(rows) - n + 1, Len(rows))

(* C27: history is the most recent min(k, 10,000) rows retired from grid   *)
(* row 0, oldest first: a step either leaves history as it is, or appends  *)
(* the row that was at grid row 0 and keeps the last 10,000 rows, evicting *)
(* only the oldest; rows already in history are never modified.            *)
C27_HistoryFifo ==
    [][\/ terminal'.history = terminal.history
       \/ terminal'.history =
             LastRows(Append(terminal.history, terminal.grid[1]), HISTORY_LIMIT)]_vars

(* C28: for every scroll_offset and every screen row y, the row the        *)
(* renderer draws at screen position y is get_visible_row(y), so that a    *)
(* scrolled view shows history rows at the top.                            *)
C28_RenderedView ==
    lastOp = "RedrawRequested" =>
       \A y \in 0..(terminal.rows - 1) :
          /\ y < Len(win.frame.rows)
          /\ win.frame.rows[y + 1] = get_visible_row(terminal, y, win.overflow_checks).row

(* C29: a coordinator step that changes the grid, moves or clears the      *)
(* selection, or changes scroll_offset (a keystroke resetting it to 0, a   *)
(* Shift+arrow / Shift+Page key, the wheel) requests a redraw in that same *)
(* step, and so does every input step that leaves scroll_offset non-zero.  *)
C29_RedrawOnChange ==
    [][\/ terminal'.grid # terminal.grid
       \/ terminal'.selection_start # terminal.selection_start
       \/ terminal'.selection_end # terminal.selection_end
       \/ terminal'.scroll_offset # terminal.scroll_offset
       \/ lastOp' \in DOMAIN ViewInputs /\ terminal'.scroll_offset > 0
       => win'.redraw]_vars

(* C30: for every selection that mouse events can create, with the pointer *)
(* anywhere inside the window (whose height and width need not be a        *)
(* multiple of the cell size), get_selected_text and the get_visible_row   *)
(* calls it makes never index the grid or history out of bounds and never  *)
(* underflow rows - 1 - screen_y.                                          *)
C30_SelectionInBounds == ~get_selected_text(terminal, win.overflow_checks).panic

(* C31: is_selecting is true only between a locally handled left-button   *)
(* press and the next left-button release, whatever PTY output toggles     *)
(* mouse_reporting and whenever Shift is pressed or released in between:   *)
(* it becomes true only in a left press handled locally, and it is false   *)
(* after every left release.                                               *)
C31_DragState ==
    [][/\ lastOp' = "LeftRelease" => ~win'.is_selecting
       /\ win'.is_selecting /\ ~win.is_selecting =>
             /\ lastOp' = "LeftPress"
             /\ ~(terminal.mouse_reporting /\ lastParams'[3] = 0)]_vars

(* C6: history changes only in a step whose new_line (a line feed, or the  *)
(* wrap of a print at the deferred-wrap position) is taken at              *)
(* cursor_y = scroll_bottom with scroll_top = 0, and the row appended is   *)
(* the row that was at grid index 0; no step taken while scroll_top # 0,   *)
(* and no IL, DL, DCH, ICH, ED, EL or resize, changes history.             *)
C6_HistoryProvenance ==
    [][/\ terminal'.history # terminal.history =>
             /\ \/ lastOp' \in {"LF", "CRLF"}
                \/ lastOp' = "print" /\ terminal.cursor_x >= terminal.cols
             /\ terminal.cursor_y = terminal.scroll_bottom
             /\ terminal.scroll_top = 0
             /\ \/ terminal'.history = Append(terminal.history, terminal.grid[1])
                \/ terminal'.history = Append(Tail(terminal.history), terminal.grid[1])
       /\ terminal.scroll_top # 0 => terminal'.history = terminal.history
       /\ lastOp' \in {"L", "M", "P", "@", "J", "K", "resize"} =>
             terminal'.history = terminal.history]_vars

(* a line feed has just retired a grid row 0 that held a printed glyph *)
C6_Witness ==
    /\ lastOp = "LF"
    /\ Len(terminal.history) = 1
    /\ \E x \in 1..Len(terminal.history[1]) : terminal.history[1][x].char = "a"

(* C7: no parser callback panics (no out-of-bounds index, no underflow),   *)
(* and afterwards the grid-shape, cursor, margin and history invariants    *)
(* hold.                                                                   *)
C7_NoCrash ==
    /\ ~terminal.panicked
    /\ GridShape(terminal)
    /\ 0 <= terminal.cursor_x /\ terminal.cursor_x <= terminal.cols
    /\ 0 <= terminal.cursor_y /\ terminal.cursor_y < terminal.rows
    /\ 0 <= terminal.scroll_top
    /\ terminal.scroll_top < terminal.scroll_bottom
    /\ terminal.scroll_bottom < terminal.rows
    /\ Len(terminal.history) <= HISTORY_LIMIT

(* C8: a line feed leaves cursor_x unchanged.  Taken at                    *)
(* cursor_y = scroll_bottom it leaves cursor_y unchanged, moves the rows   *)
(* scroll_top + 1 .. scroll_bottom up by one, puts a blank row with the    *)
(* current pen at scroll_bottom and leaves the rows outside the region     *)
(* unchanged; taken anywhere else it sets cursor_y to                      *)
(* min(cursor_y + 1, rows - 1) and leaves the grid unchanged.              *)
C8_LineFeed ==
    [][lastOp' \in {"LF", "CRLF"} =>
          LET t == terminal
              u == terminal'
              blank == [char |-> " ", fg |-> t.current_fg, bg |-> t.current_bg,
                        inverse |-> t.current_inverse]
          IN  /\ u.cursor_x = t.cursor_x
              /\ IF t.cursor_y = t.scroll_bottom
                 THEN /\ u.cursor_y = t.cursor_y
                      /\ Len(u.grid) = t.rows
                      /\ \A y \in 0..(t.rows - 1) :
                            u.grid[y + 1] =
                               IF y < t.scroll_top \/ y > t.scroll_bottom
                               THEN t.grid[y + 1]
                               ELSE IF y < t.scroll_bottom
                                    THEN t.grid[y + 2]
                                    ELSE [x \in 1..t.cols |-> blank]
                 ELSE /\ u.cursor_y = Min(t.cursor_y + 1, t.rows - 1)
                      /\ u.grid = t.grid]_vars

(* a line feed has just scrolled the region 1..2 of a three-row terminal   *)
(* with the inverse pen: row 0, outside the region, keeps its glyph and    *)
(* the new bottom row is blank with the pen's attributes                   *)
C8_Witness ==
    /\ lastOp = "LF"
    /\ terminal.scroll_top = 1
    /\ terminal.scroll_bottom = 2
    /\ terminal.cursor_y = 2
    /\ terminal.current_inverse
    /\ terminal.grid[1][1].char = "a"
    /\ terminal.grid[3][1] = [char |-> " ", fg |-> "DefaultFg", bg |-> "DefaultBg",
                              inverse |-> TRUE]

DefaultMargins(t) == t.scroll_top = 0 /\ t.scroll_bottom = t.rows - 1

(* C9 as claimed: CR LF received with the cursor on the last screen line   *)
(* makes history one row longer when the margins are default, and leaves   *)
(* its length unchanged otherwise.                                         *)
C9_Claimed ==
    [][lastOp' = "CRLF" /\ terminal.cursor_y = terminal.rows - 1 =>
          Len(terminal'.history) =
              Len(terminal.history) + (IF DefaultMargins(terminal) THEN 1 ELSE 0)]_vars

(* C9 amended: CR LF received with the cursor on the last screen line      *)
(* appends exactly one row, the former grid row 0, to history when the     *)
(* margins are default: the length grows by one, or stays the same when    *)
(* the oldest row is evicted because history is at its maximum length;     *)
(* with any non-default margins history is unchanged.                      *)
C9_CrLf ==
    [][lastOp' = "CRLF" /\ terminal.cursor_y = terminal.rows - 1 =>
          IF DefaultMargins(terminal)
          THEN \/ terminal'.history = Append(terminal.history, terminal.grid[1])
               \/ /\ Len(terminal.history) >= HISTORY_LIMIT
                  /\ terminal'.history = Append(Tail(terminal.history), terminal.grid[1])
          ELSE terminal'.history = terminal.history]_vars

(* CR LF has just been taken on the last line with history at its maximum  *)
(* length: the oldest row (the one holding 'a') is gone                    *)
C9_Witness ==
    /\ lastOp = "CRLF"
    /\ terminal.cursor_y = terminal.rows - 1
    /\ DefaultMargins(terminal)
    /\ Len(terminal.history) = HISTORY_LIMIT + 1
    /\ terminal.history[1][1].char = " "

GlyphsPlaced(t) ==
    \A i \in 0..(Len(printed) - 1) :
        t.grid[(i \div t.cols) + 1][(i % t.cols) + 1].char = printed[i + 1]

(* C10 as claimed: after printing n < cols * rows glyphs on a fresh        *)
(* terminal the cursor is at (n mod cols, n div cols) and glyph i is at    *)
(* grid[i div cols][i mod cols].                                           *)
C10_Claimed ==
    LET n == Len(printed) IN
    n < terminal.cols * terminal.rows =>
        /\ terminal.cursor_x = n % terminal.cols
        /\ terminal.cursor_y = n \div terminal.cols
        /\ GlyphsPlaced(terminal)

(* C10 amended: after printing n < cols * rows glyphs on a fresh terminal  *)
(* glyph i is at grid[i div cols][i mod cols], and the cursor is at        *)
(* (n mod cols, n div cols) when n = 0 or n is not a multiple of cols, and *)
(* at the deferred-wrap position (cols, n div cols - 1) when n is a        *)
(* positive multiple of cols.                                              *)
C10_PrintCursor ==
    LET n == Len(printed) IN
    n < terminal.cols * terminal.rows =>
        /\ IF n > 0 /\ n % terminal.cols = 0
           THEN /\ terminal.cursor_x = terminal.cols
                /\ terminal.cursor_y = (n \div terminal.cols) - 1
           ELSE /\ terminal.cursor_x = n % terminal.cols
                /\ terminal.cursor_y = n \div terminal.cols
        /\ GlyphsPlaced(terminal)

(* a full first line has been printed on a terminal with two columns and   *)
(* more than one row: the cursor waits at the deferred-wrap position       *)
C10_Witness ==
    /\ lastOp = "print"
    /\ terminal.cols = 2
    /\ terminal.rows >= 2
    /\ Len(printed) = 2

=============================================================================
